---- MODULE Spec2Model ----
(***************************************************************************)
(* Model of the latency-topology-visualizer:                               *)
(*   - the history route's response normalizer (extractHistoryPoints and   *)
(*     its helpers) and computeHistoryStats,                               *)
(*   - the two proxy routes GET /api/latency/history and GET /api/latency  *)
(*     (final revision, with its snapshot cache),                          *)
(*   - the ExchangeMap component: its selection state, its history fetch   *)
(*     effect, its latency poll and its latency filter.                    *)
(*                                                                         *)
(* JavaScript values are tagged records.  Strings that the code inspects   *)
(* (trim, Number(), regular expressions, ISO formatting) are sequences of  *)
(* one-character strings, so that these conversions are computed.          *)
(* Numbers are integers, or exact ratios num/den where the code divides.   *)
(***************************************************************************)
EXTENDS Integers, Sequences, FiniteSets, TLC

VARIABLES
    payload,      \* SpecNorm: the upstream JSON body handed to extractHistoryPoints
    context,      \* SpecNorm: { dateStart, dateEnd } in epoch milliseconds
    points,       \* SpecNorm: what extractHistoryPoints returned (or Throw)
    histogramOut, \* SpecNorm: what extractHistogramPoints returned for result.histogram_0
    npc,          \* SpecNorm: "input" | "extracted" | "done"
    statsIn,      \* SpecStats: the point sequence handed to computeHistoryStats
    statsOut,     \* SpecStats/SpecNorm: what computeHistoryStats returned
    token,        \* process.env.CLOUDFLARE_API_TOKEN is set
    clock,        \* Date.now(), in milliseconds
    snapshotCache,\* network.ts: the module-level Map of GET /api/latency
    req,          \* the requests being served: one record per request slot
    started,      \* number of requests received so far
    upstream,     \* number of upstream fetches issued so far (by either route)
    parseIn,      \* SpecParse: the value handed to a metric field extraction
    parseOut,     \* SpecParse: the function called and what it returned
    circle,       \* SpecCircle: one call of generateCircleCoordinates
    view,         \* ExchangeMap: the values of its useState hooks
    controllers,  \* ExchangeMap: the history fetches issued, one AbortController each
    polls,        \* ExchangeMap: the pullLatency calls made by the poll effect
    mounted       \* ExchangeMap: the component is mounted

normVars == <<payload, context, points, histogramOut, npc>>
statsVars == <<statsIn, statsOut>>
apiVars == <<token, clock, snapshotCache, req, started, upstream>>
parseVars == <<parseIn, parseOut>>
circleVars == <<circle>>
mapVars == <<view, controllers, polls, mounted>>
vars == <<payload, context, points, histogramOut, npc, statsIn, statsOut,
          token, clock, snapshotCache, req, started, upstream, parseIn, parseOut,
          circle,
          view, controllers, polls, mounted>>

(***************************************************************************)
(* Bounds of the model.                                                    *)
(***************************************************************************)
MaxSerie == 2      \* longest serie_0 array of entries enumerated
MaxHist == 3       \* longest histogram array enumerated
MaxSpan == 3       \* longest [dateStart, dateEnd] window enumerated, in ms
MaxPoints == 3     \* longest point sequence handed to computeHistoryStats
MaxParse == 2      \* longest array handed to toArrayOfNumbers
MaxSteps == 3      \* most segments of one generateCircleCoordinates call
MaxRequests == 2   \* requests received in one behaviour
MaxTicks == 1      \* clock ticks in one behaviour
ClockStart == 700000000   \* Date.now() when the first request arrives
MaxHistoryFetches == 2  \* history fetches issued by one ExchangeMap
MaxPolls == 3  \* pullLatency calls made by one ExchangeMap

(***************************************************************************)
(* JavaScript values.                                                      *)
(***************************************************************************)
Undefined == [t |-> "undefined"]
Null == [t |-> "null"]
NaN == [t |-> "nan"]
Num(n) == [t |-> "number", n |-> n]
Str(s) == [t |-> "string", s |-> s]
Bool(b) == [t |-> "boolean", b |-> b]
Arr(a) == [t |-> "array", a |-> a]
Obj(o) == [t |-> "object", o |-> o]
EmptyObj == [t |-> "object", o |-> [k \in {} |-> Null]]

\* The outcome of a call: the value it returns, or the exception it ends in.
Return(v) == [t |-> "return", value |-> v]
Throw(e) == [t |-> "throw", error |-> e]
IsThrow(v) == v.t = "throw"
NotCalled == [t |-> "notcalled"]

IsNullish(v) == v.t \in {"undefined", "null"}
IsArray(v) == v.t = "array"
TypeofNumber(v) == v.t \in {"number", "nan"}
TypeofString(v) == v.t = "string"
TypeofObject(v) == v.t \in {"object", "array", "null"}

\* !v is false: the value is truthy.
Truthy(v) ==
    CASE v.t \in {"undefined", "null", "nan"} -> FALSE
      [] v.t = "boolean" -> v.b
      [] v.t = "number" -> IF "n" \in DOMAIN v THEN v.n # 0 ELSE TRUE
      [] v.t = "string" -> Len(v.s) > 0
      [] OTHER -> TRUE

\* v.k for a value that is neither null nor undefined: a key an object does
\* not have, and any key of a primitive or an array, reads as undefined.
Get(v, k) ==
    IF v.t = "object" /\ k \in DOMAIN v.o THEN v.o[k] ELSE Undefined

\* v?.k
OptGet(v, k) == IF IsNullish(v) THEN Undefined ELSE Get(v, k)

\* a ?? b
Coalesce(a, b) == IF IsNullish(a) THEN b ELSE a

(***************************************************************************)
(* Strings as character sequences.                                         *)
(***************************************************************************)
Digits == <<"0", "1", "2", "3", "4", "5", "6", "7", "8", "9">>
IsDigit(c) == \E i \in 1..10 : Digits[i] = c
DigitVal(c) == (CHOOSE i \in 1..10 : Digits[i] = c) - 1

\* The decimal value of a sequence of digits.
RECURSIVE DigitsVal(_)
DigitsVal(s) ==
    IF Len(s) = 0 THEN 0
    ELSE 10 * DigitsVal(SubSeq(s, 1, Len(s) - 1)) + DigitVal(s[Len(s)])

AllDigits(s) == Len(s) > 0 /\ \A i \in 1..Len(s) : IsDigit(s[i])

\* String.prototype.trim
RECURSIVE TrimLeft(_)
TrimLeft(s) ==
    IF Len(s) > 0 /\ s[1] = " " THEN TrimLeft(Tail(s)) ELSE s
RECURSIVE TrimRight(_)
TrimRight(s) ==
    IF Len(s) > 0 /\ s[Len(s)] = " " THEN TrimRight(SubSeq(s, 1, Len(s) - 1)) ELSE s
Trim(s) == TrimRight(TrimLeft(s))

\* Number(string): surrounding white space is ignored, the empty string is 0,
\* an optionally signed run of digits is its value, anything else is NaN.
StringToNumber(s) ==
    LET body == Trim(s)
    IN  IF Len(body) = 0 THEN Num(0)
        ELSE IF AllDigits(body) THEN Num(DigitsVal(body))
        ELSE IF body[1] \in {"-", "+"} /\ AllDigits(Tail(body))
             THEN Num(IF body[1] = "-" THEN 0 - DigitsVal(Tail(body)) ELSE DigitsVal(Tail(body)))
        ELSE NaN

\* The decimal digits of a natural number.
RECURSIVE NatToDigits(_)
NatToDigits(n) ==
    IF n < 10 THEN <<Digits[n + 1]>>
    ELSE Append(NatToDigits(n \div 10), Digits[(n % 10) + 1])

\* String(number)
NumberToString(v) ==
    IF v.t = "nan" THEN <<"N", "a", "N">>
    ELSE IF v.n < 0 THEN <<"-">> \o NatToDigits(0 - v.n)
    ELSE NatToDigits(v.n)

RECURSIVE ToStringJs(_)
RECURSIVE JoinJs(_)
\* Array.prototype.join(","): null and undefined elements join as "".
JoinJs(a) ==
    IF Len(a) = 0 THEN <<>>
    ELSE LET head == IF IsNullish(a[1]) THEN <<>> ELSE ToStringJs(a[1])
         IN  IF Len(a) = 1 THEN head ELSE head \o <<",">> \o JoinJs(Tail(a))
\* String(value)
ToStringJs(v) ==
    CASE v.t = "string" -> v.s
      [] v.t \in {"number", "nan"} -> NumberToString(v)
      [] v.t = "boolean" -> IF v.b THEN <<"t", "r", "u", "e">> ELSE <<"f", "a", "l", "s", "e">>
      [] v.t = "null" -> <<"n", "u", "l", "l">>
      [] v.t = "undefined" -> <<"u", "n", "d", "e", "f", "i", "n", "e", "d">>
      [] v.t = "array" -> JoinJs(v.a)
      [] OTHER -> <<"[", "o", "b", "j", "e", "c", "t", " ", "O", "b", "j", "e", "c", "t", "]">>

\* Number(value)
ToNumberJs(v) ==
    CASE v.t \in {"number", "nan"} -> v
      [] v.t = "string" -> StringToNumber(v.s)
      [] v.t = "boolean" -> IF v.b THEN Num(1) ELSE Num(0)
      [] v.t = "null" -> Num(0)
      [] v.t = "undefined" -> NaN
      [] v.t = "array" -> StringToNumber(JoinJs(v.a))
      [] OTHER -> NaN

\* Number.isFinite
IsFiniteJs(v) == v.t = "number"

(***************************************************************************)
(* Sequence helpers standing for Array.prototype.map / filter / reduce.    *)
(***************************************************************************)
\* array[index] with a 0-based index: undefined past the end.
At(a, index) == IF index + 1 <= Len(a) THEN a[index + 1] ELSE Undefined

\* Exact quotient a / b of two integers, b > 0, as a JavaScript number.
RECURSIVE Gcd(_, _)
Gcd(a, b) == IF b = 0 THEN a ELSE Gcd(b, a % b)
Abs(a) == IF a < 0 THEN 0 - a ELSE a
Quot(a, b) ==
    IF a % b = 0 THEN Num(a \div b)
    ELSE LET g == Gcd(Abs(a), b)
         IN  [t |-> "number", num |-> (IF a < 0 THEN 0 - (Abs(a) \div g) ELSE a \div g),
              den |-> b \div g]

\* Integer part of a / b, b > 0: what the Date constructor keeps of a
\* fractional time value.
TruncDiv(a, b) == IF a >= 0 THEN a \div b ELSE 0 - ((0 - a) \div b)

(***************************************************************************)
(* Date.prototype.toISOString, as a fixed-width, zero-padded rendering of  *)
(* the time value followed by "Z": like the real format it is injective    *)
(* and its lexicographic order is the order of the time values.            *)
(***************************************************************************)
IsoWidth == 10
RECURSIVE PadLeft(_, _)
PadLeft(s, width) == IF Len(s) >= width THEN s ELSE PadLeft(<<"0">> \o s, width)
ToISOString(ms) == Str(PadLeft(NatToDigits(ms), IsoWidth) \o <<"Z">>)
\* Date.parse of a string produced by ToISOString.
IsoToMs(v) == DigitsVal(SubSeq(v.s, 1, Len(v.s) - 1))

(***************************************************************************)
(* route.ts: the field parsers.                                            *)
(***************************************************************************)
parseNullableNumber(value) ==
    IF IsNullish(value) THEN Null
    ELSE LET numeric == IF TypeofNumber(value) THEN value ELSE ToNumberJs(value)
         IN  IF IsFiniteJs(numeric) THEN numeric ELSE Null

toArrayOfStrings(value) ==
    IF IsArray(value)
    THEN LET strings == [i \in 1..Len(value.a) |->
                            IF TypeofString(value.a[i]) THEN value.a[i].s
                            ELSE ToStringJs(Coalesce(value.a[i], Str(<<>>)))]
             trimmed == [i \in 1..Len(strings) |-> Str(Trim(strings[i]))]
         IN  SelectSeq(trimmed, LAMBDA item : Len(item.s) > 0)
    ELSE <<>>

toArrayOfNumbers(value) ==
    IF IsArray(value)
    THEN [i \in 1..Len(value.a) |-> parseNullableNumber(value.a[i])]
    ELSE <<>>

\* value.match(/-?\d+(\.\d+)?/): the first match as a string, null when
\* there is none.  (The strings enumerated hold no ".", so the optional
\* fraction group never matches.)
MatchStartsAt(s, i) ==
    \/ IsDigit(s[i])
    \/ s[i] = "-" /\ i < Len(s) /\ IsDigit(s[i + 1])
RECURSIVE DigitRunEnd(_, _)
DigitRunEnd(s, i) ==
    IF i < Len(s) /\ IsDigit(s[i + 1]) THEN DigitRunEnd(s, i + 1) ELSE i
FirstNumericToken(s) ==
    IF \E i \in 1..Len(s) : MatchStartsAt(s, i)
    THEN LET i == CHOOSE k \in 1..Len(s) :
                    MatchStartsAt(s, k) /\ \A j \in 1..(k - 1) : ~MatchStartsAt(s, j)
             first == IF s[i] = "-" THEN i + 1 ELSE i
             last == DigitRunEnd(s, first)
         IN  Str(SubSeq(s, i, last))
    ELSE Null

parseHistogramNumber(value) ==
    IF TypeofNumber(value) THEN (IF IsFiniteJs(value) THEN value ELSE Null)
    ELSE IF TypeofString(value)
    THEN LET matches == FirstNumericToken(value.s)
         IN  IF matches = Null THEN Null
             ELSE LET numeric == StringToNumber(matches.s)
                  IN  IF IsFiniteJs(numeric) THEN numeric ELSE Null
    ELSE Null

HistogramCandidateKeys ==
    <<"bucketStart", "bucket_start", "bucket", "bucketEnd", "bucket_end", "latency",
      "valueLatency", "value_latency", "value", "avgLatency", "avg_latency">>

\* entry.bucketStart on a null entry is a TypeError.
parseLatencyFromHistogramEntry(entry) ==
    IF IsNullish(entry) THEN Throw("TypeError")
    ELSE LET parsed == [i \in 1..Len(HistogramCandidateKeys) |->
                           parseHistogramNumber(Get(entry, HistogramCandidateKeys[i]))]
         IN  IF \E i \in 1..Len(parsed) : parsed[i] # Null
             THEN parsed[CHOOSE i \in 1..Len(parsed) :
                             parsed[i] # Null /\ \A j \in 1..(i - 1) : parsed[j] = Null]
             ELSE Null

normalizeHistogramEntries(histogram) ==
    IF ~Truthy(histogram) THEN <<>>
    ELSE IF IsArray(histogram) THEN histogram.a
    ELSE IF TypeofObject(histogram)
    THEN LET buckets == Get(histogram, "buckets")
             data == Get(histogram, "data")
             values == Get(histogram, "values")
         IN  IF IsArray(buckets) /\ IsArray(values) /\ Len(buckets.a) = Len(values.a)
             THEN [i \in 1..Len(buckets.a) |->
                       Obj(("bucket" :> buckets.a[i]) @@
                           ("value" :> Coalesce(values.a[i], Null)))]
             ELSE IF IsArray(buckets) THEN buckets.a
             ELSE IF IsArray(data) THEN data.a
             ELSE <<>>
    ELSE <<>>

HistoryPoint(timestamp, latencyIdle, latencyLoaded, jitterIdle) ==
    [timestamp |-> timestamp, latencyIdle |-> latencyIdle,
     latencyLoaded |-> latencyLoaded, jitterIdle |-> jitterIdle]

\* HistogramTimeValue with the window divided by the number of entries
\* instead of the number of gaps.
HistogramTimeValue_StepByTotal(startMs, endMs, total, index) ==
    IF total > 1
    THEN TruncDiv(startMs * total + (endMs - startMs) * index, total)
    ELSE startMs

\* The time value of the index-th (0-based) of total histogram points:
\* new Date(startMs + step * index) with step = (endMs - startMs) / (total - 1),
\* or 0 for a single entry; the Date constructor drops the fraction.
HistogramTimeValue(startMs, endMs, total, index) ==
    IF total > 1
    THEN TruncDiv(startMs * (total - 1) + (endMs - startMs) * index, total - 1)
    ELSE startMs

extractHistogramPoints(histogram, ctx) ==
    LET entries == normalizeHistogramEntries(histogram)
    IN  IF Len(entries) = 0 THEN Return(<<>>)
        ELSE LET startMs == ctx.dateStart
                 endMs == ctx.dateEnd
                 total == Len(entries)
                 latency == [i \in 1..total |-> parseLatencyFromHistogramEntry(entries[i])]
             IN  IF \E i \in 1..total : IsThrow(latency[i])
                 THEN latency[CHOOSE i \in 1..total :
                                  IsThrow(latency[i]) /\ \A j \in 1..(i - 1) : ~IsThrow(latency[j])]
                 ELSE Return([i \in 1..total |->
                          HistoryPoint(ToISOString(HistogramTimeValue(startMs, endMs, total, i - 1)),
                                       latency[i], Null, Null)])

normalizeHistoryPoint(timestamp, latencyIdle, latencyLoaded, jitterIdle) ==
    HistoryPoint(timestamp, parseNullableNumber(latencyIdle),
                 parseNullableNumber(latencyLoaded), parseNullableNumber(jitterIdle))

\* array[index] !== undefined ? array[index] ?? null : null
SeriesValue(series, index) ==
    IF At(series, index) # Undefined THEN Coalesce(At(series, index), Null) ELSE Null

extractPercentileSeries(rawSerie) ==
    LET timestamps == toArrayOfStrings(Get(rawSerie, "timestamps"))
    IN  IF Len(timestamps) = 0 THEN <<>>
        ELSE LET p50 == toArrayOfNumbers(Get(rawSerie, "p50"))
                 p75 == toArrayOfNumbers(Get(rawSerie, "p75"))
                 p25 == toArrayOfNumbers(Get(rawSerie, "p25"))
             IN  [i \in 1..Len(timestamps) |->
                     HistoryPoint(timestamps[i], SeriesValue(p50, i - 1),
                                  SeriesValue(p75, i - 1), SeriesValue(p25, i - 1))]

\* One element of the rawSerie.map(...) of the array-of-entries shape: the
\* point, or null when the entry carries no timestamp.
SerieEntryPoint(entry) ==
    LET dimensions == OptGet(entry, "dimensions")
        metrics == OptGet(entry, "metrics")
        timestamp == Coalesce(Coalesce(OptGet(dimensions, "datetime"),
                                       OptGet(dimensions, "timestamp")),
                              OptGet(entry, "timestamp"))
    IN  IF ~Truthy(timestamp) THEN Null
        ELSE normalizeHistoryPoint(timestamp, OptGet(metrics, "latencyIdle"),
                                   OptGet(metrics, "latencyLoaded"),
                                   OptGet(metrics, "jitterIdle"))

\* Lines 183-219: the alias fallback after extractPercentileSeries.
extractAliasSeries(rawSerie) ==
    LET timestamps == toArrayOfStrings(Get(rawSerie, "timestamps"))
        latencyIdle == toArrayOfNumbers(
            Coalesce(Coalesce(Get(rawSerie, "latencyIdle"), Get(rawSerie, "latency_idle")),
                     Get(rawSerie, "values")))
        latencyLoaded == toArrayOfNumbers(
            Coalesce(Get(rawSerie, "latencyLoaded"), Get(rawSerie, "latency_loaded")))
        jitterIdle == toArrayOfNumbers(
            Coalesce(Get(rawSerie, "jitterIdle"), Get(rawSerie, "jitter_idle")))
    IN  [i \in 1..Len(timestamps) |->
            HistoryPoint(timestamps[i], SeriesValue(latencyIdle, i - 1),
                         SeriesValue(latencyLoaded, i - 1), SeriesValue(jitterIdle, i - 1))]

\* Lines 146-219: what a truthy serie_0 yields, as an array of entries or
\* as an object of parallel arrays.
extractSeriePoints(rawSerie) ==
    IF IsArray(rawSerie)
    THEN SelectSeq([i \in 1..Len(rawSerie.a) |-> SerieEntryPoint(rawSerie.a[i])],
                   LAMBDA point : point # Null)
    ELSE LET percentilePoints == extractPercentileSeries(rawSerie)
         IN  IF Len(percentilePoints) > 0 THEN percentilePoints
             ELSE extractAliasSeries(rawSerie)

extractHistoryPoints(body, ctx) ==
    IF IsNullish(body) THEN Throw("TypeError")
    ELSE LET result == Get(body, "result")
         IN  IF ~Truthy(result) THEN Return(<<>>)
             ELSE LET rawSerie == Get(result, "serie_0")
                      rawHistogram == Get(result, "histogram_0")
                  IN  IF ~Truthy(rawSerie) /\ Truthy(rawHistogram)
                      THEN extractHistogramPoints(rawHistogram, ctx)
                      ELSE IF ~Truthy(rawSerie) THEN Return(<<>>)
                      ELSE Return(extractSeriePoints(rawSerie))

(***************************************************************************)
(* route.ts: computeHistoryStats.                                          *)
(***************************************************************************)
RECURSIVE SumSeq(_)
SumSeq(values) == IF Len(values) = 0 THEN 0 ELSE values[1].n + SumSeq(Tail(values))
RECURSIVE MinSeq(_)
MinSeq(values) ==
    IF Len(values) = 1 THEN values[1].n
    ELSE LET rest == MinSeq(Tail(values))
         IN  IF values[1].n < rest THEN values[1].n ELSE rest
RECURSIVE MaxSeq(_)
MaxSeq(values) ==
    IF Len(values) = 1 THEN values[1].n
    ELSE LET rest == MaxSeq(Tail(values))
         IN  IF values[1].n > rest THEN values[1].n ELSE rest

\* computeHistoryStats without the filter: a null latencyIdle counts as 0.
computeHistoryStats_NoFilter(pts) ==
    LET latencyValues == [i \in 1..Len(pts) |-> Coalesce(pts[i].latencyIdle, Num(0))]
    IN  IF Len(latencyValues) = 0
        THEN [min |-> Null, max |-> Null, avg |-> Null, samples |-> 0]
        ELSE [min |-> Num(MinSeq(latencyValues)),
              max |-> Num(MaxSeq(latencyValues)),
              avg |-> Quot(SumSeq(latencyValues), Len(latencyValues)),
              samples |-> Len(latencyValues)]

\* computeHistoryStats answering zeros when there is no value.
computeHistoryStats_Zeros(pts) ==
    LET latencyValues == SelectSeq([i \in 1..Len(pts) |-> pts[i].latencyIdle],
                                   LAMBDA value : TypeofNumber(value))
    IN  IF Len(latencyValues) = 0
        THEN [min |-> Num(0), max |-> Num(0), avg |-> Num(0), samples |-> 0]
        ELSE [min |-> Num(MinSeq(latencyValues)),
              max |-> Num(MaxSeq(latencyValues)),
              avg |-> Quot(SumSeq(latencyValues), Len(latencyValues)),
              samples |-> Len(latencyValues)]

computeHistoryStats(pts) ==
    LET latencyValues == SelectSeq([i \in 1..Len(pts) |-> pts[i].latencyIdle],
                                   LAMBDA value : TypeofNumber(value))
    IN  IF Len(latencyValues) = 0
        THEN [min |-> Null, max |-> Null, avg |-> Null, samples |-> 0]
        ELSE [min |-> Num(MinSeq(latencyValues)),
              max |-> Num(MaxSeq(latencyValues)),
              avg |-> Quot(SumSeq(latencyValues), Len(latencyValues)),
              samples |-> Len(latencyValues)]

(***************************************************************************)
(* The inputs enumerated for the normalizer.                               *)
(***************************************************************************)
\* An object literal: the keys whose value is undefined are left out.
ObjOf(pairs) ==
    LET present == {i \in 1..Len(pairs) : pairs[i][2] # Undefined}
    IN  Obj([k \in {pairs[i][1] : i \in present} |->
                pairs[CHOOSE i \in present : pairs[i][1] = k][2]])

SeqsUpTo(S, n) == UNION {[1..m -> S] : m \in 0..n}

T1 == Str(<<"t", "1">>)
T2 == Str(<<"t", "2">>)

\* Entries of the array-of-entries shape of serie_0.
SerieEntries ==
    { Null,
      Num(5),
      ObjOf(<< <<"dimensions", ObjOf(<< <<"datetime", T1>> >>)>>,
               <<"metrics", ObjOf(<< <<"latencyIdle", Num(10)>> >>)>> >>),
      ObjOf(<< <<"timestamp", T2>>,
               <<"metrics", ObjOf(<< <<"latencyIdle", Str(<<"1", "2">>)>> >>)>> >>),
      ObjOf(<< <<"metrics", ObjOf(<< <<"latencyIdle", Num(10)>> >>)>> >>) }

\* serie_0 as an object of parallel arrays.
ParallelSeries ==
    { ObjOf(<< <<"timestamps", ts>>, <<"latencyIdle", li>>, <<"p50", p>>, <<"values", vs>> >>) :
        ts \in {Undefined, Arr(<<>>), Arr(<<T1, T2>>), Arr(<<T2, Str(<<" ">>), T1>>)},
        li \in {Undefined, Arr(<<Num(10), Num(20)>>)},
        p \in {Undefined, Arr(<<Num(12), Num(15)>>), Arr(<<Num(12), Num(15), Num(18)>>)},
        vs \in {Undefined, Arr(<<Num(7), Str(<<"8">>)>>)} }

\* serie_0 values that are absent, falsy, or present and empty.
SerieFew == {Undefined, Null, Num(0), Arr(<<>>), EmptyObj}

SerieAll ==
    SerieFew \cup {Bool(TRUE), Str(<<"a">>)} \cup ParallelSeries
        \cup {Arr(a) : a \in SeqsUpTo(SerieEntries, MaxSerie)}

\* Entries of histogram_0.
HistEntries ==
    { Null,
      Num(7),
      ObjOf(<< <<"bucket", Str(<<"a", "-", "9", "m", "s">>)>>, <<"value", Num(3)>> >>),
      ObjOf(<< <<"latency", Str(<<"m", "s">>)>>, <<"avg_latency", Num(4)>> >>) }

HistObjects ==
    { EmptyObj,
      ObjOf(<< <<"buckets", Arr(<<Str(<<"5">>), Str(<<"1", "0">>)>>)>>,
               <<"values", Arr(<<Num(1), Null>>)>> >>),
      ObjOf(<< <<"buckets", Arr(<<Str(<<"5">>), Str(<<"1", "0">>)>>)>>,
               <<"values", Arr(<<Num(1)>>)>> >>),
      ObjOf(<< <<"buckets", Arr(<<Null, ObjOf(<< <<"value", Num(2)>> >>)>>)>> >>),
      ObjOf(<< <<"data", Arr(<<ObjOf(<< <<"latency", Num(4)>> >>),
                               ObjOf(<< <<"avg_latency", Str(<<"6">>)>> >>)>>)>> >>) }

HistFew ==
    { Undefined,
      Arr(<<ObjOf(<< <<"value", Num(3)>> >>), ObjOf(<< <<"value", Num(4)>> >>)>>) }

HistAll ==
    {Undefined, Null, Num(5), Str(<<"a">>)} \cup HistObjects
        \cup {Arr(a) : a \in SeqsUpTo(HistEntries, MaxHist)}

Contexts ==
    {[dateStart |-> s, dateEnd |-> s + d] : s \in {0, 5}, d \in 0..MaxSpan}

ResultOf(serie, hist) ==
    ObjOf(<< <<"result", ObjOf(<< <<"serie_0", serie>>, <<"histogram_0", hist>> >>)>> >>)

NormInputs ==
    ({Null, EmptyObj, ObjOf(<< <<"result", Null>> >>), ObjOf(<< <<"result", Num(5)>> >>)}
        \X {[dateStart |-> 0, dateEnd |-> MaxSpan]})
    \cup ({ResultOf(serie, hist) : serie \in SerieAll, hist \in HistFew}
            \X {[dateStart |-> 0, dateEnd |-> MaxSpan]})
    \cup ({ResultOf(serie, hist) : serie \in SerieFew, hist \in HistAll} \X Contexts)

\* result.histogram_0 of a body, undefined when the body has none.
HistogramOf(body) == OptGet(OptGet(body, "result"), "histogram_0")
SerieOf(body) == OptGet(OptGet(body, "result"), "serie_0")

\* Point sequences handed to computeHistoryStats.
StatsValues == {Null, Num(10), Num(20), Num(30), Num(0 - 5)}
StatsInputs ==
    {[i \in 1..Len(ls) |-> HistoryPoint(ToISOString(i), ls[i], Null, Null)] :
        ls \in SeqsUpTo(StatsValues, MaxPoints)}

ParseIdle ==
    /\ parseIn = Undefined
    /\ parseOut = NotCalled

CircleIdle == circle = [pc |-> "idle"]

\* No ExchangeMap has been rendered.
MapIdle ==
    /\ view = [t |-> "unrendered"]
    /\ controllers = <<>>
    /\ polls = <<>>
    /\ mounted = FALSE

NormIdle ==
    /\ payload = Undefined
    /\ context = [dateStart |-> 0, dateEnd |-> 0]
    /\ points = NotCalled
    /\ histogramOut = NotCalled
    /\ npc = "idle"

(***************************************************************************)
(* The proxy routes.                                                       *)
(*                                                                         *)
(* A query parameter is null (absent) or a string.  The regions parameter  *)
(* is kept as its pieces between commas, each an id with or without        *)
(* surrounding blanks, so that split, trim and filter are computed.        *)
(***************************************************************************)
QStr(v) == [t |-> "qstring", v |-> v]
Piece(id) == [id |-> id, padded |-> FALSE]
Padded(id) == [id |-> id, padded |-> TRUE]
Regions(pieces) == [t |-> "qlist", pieces |-> pieces]

\* data/network.ts CLOUD_REGIONS: its first two rows.
CLOUD_REGIONS ==
    << [id |-> "aws-virginia", countryCode |-> "US"],
       [id |-> "aws-london", countryCode |-> "GB"] >>

\* CLOUD_REGIONS.find((item) => item.id === regionId): its index, 0 for
\* undefined.
FindRegion(regionId) ==
    IF \E i \in 1..Len(CLOUD_REGIONS) : CLOUD_REGIONS[i].id = regionId
    THEN CHOOSE i \in 1..Len(CLOUD_REGIONS) :
            CLOUD_REGIONS[i].id = regionId
            /\ \A j \in 1..(i - 1) : CLOUD_REGIONS[j].id # regionId
    ELSE 0

CACHE_TTL_MS == 10000
EndBufferMs == 60000

\* TIME_RANGE_TO_DURATION[rangeParam]: a key of the table reads its
\* duration, a key of Object.prototype reads an inherited function, any
\* other key reads undefined.
ObjectPrototypeKeys == {"toString", "constructor", "valueOf", "hasOwnProperty"}
TIME_RANGE_TO_DURATION(rangeParam) ==
    CASE rangeParam = "1h" -> Num(60 * 60 * 1000)
      [] rangeParam = "24h" -> Num(24 * 60 * 60 * 1000)
      [] rangeParam = "7d" -> Num(7 * 24 * 60 * 60 * 1000)
      [] rangeParam = "30d" -> Num(30 * 24 * 60 * 60 * 1000)
      [] rangeParam \in ObjectPrototypeKeys -> [t |-> "function"]
      [] OTHER -> Undefined

Response(status, body) == [t |-> "response", status |-> status, body |-> body]
NoResponse == [t |-> "none"]
ResponseOk(resp) == resp.status \in 200..299

TokenMessage == "Cloudflare API token not configured."

(***************************************************************************)
(* GET /api/latency/history (route.ts:15-102).  cf is what the fetch to    *)
(* Cloudflare does: it rejects, answers a non-OK status, answers OK with a *)
(* body that is no JSON, or answers OK with a JSON body.                   *)
(***************************************************************************)
CfNone == [kind |-> "none"]
CfReject == [kind |-> "reject"]
CfStatus(status) == [kind |-> "status", status |-> status]
CfMalformed == [kind |-> "malformed"]
CfOk(body) == [kind |-> "ok", body |-> body]

\* Lines 52-101: the try block.
HistoryUpstream(cf, dateStart, dateEnd, doneMs) ==
    CASE cf.kind = "reject" -> Response(500, [message |-> "fetch failed"])
      [] cf.kind = "status" ->
            Response(cf.status, [message |-> "Cloudflare responded with an error"])
      [] cf.kind = "malformed" -> Response(500, [message |-> "Unexpected token"])
      [] OTHER ->
            LET pts == extractHistoryPoints(cf.body, [dateStart |-> dateStart, dateEnd |-> dateEnd])
            IN  IF IsThrow(pts) THEN Response(500, [message |-> pts.error])
                ELSE Response(200, [points |-> pts.value,
                                    stats |-> computeHistoryStats(pts.value),
                                    queriedAt |-> ToISOString(doneMs)])

\* The route with the region checked before the token.
HistoryRoute_RegionFirst(tokenSet, regionParam, rangeParam, cf, nowMs) ==
    LET regionId == IF regionParam = Null THEN "" ELSE regionParam.v
    IN  IF FindRegion(regionId) = 0
        THEN Response(400, [message |-> "Unknown region identifier supplied."])
        ELSE IF ~tokenSet THEN Response(500, [message |-> TokenMessage])
        ELSE HistoryUpstream(cf, nowMs - EndBufferMs - 24 * 60 * 60 * 1000,
                             nowMs - EndBufferMs, nowMs)

\* The whole handler: the response, or the exception it ends in.
HistoryRoute(tokenSet, regionParam, rangeParam, cf, nowMs) ==
    IF ~tokenSet THEN Response(500, [message |-> TokenMessage])
    ELSE LET regionId == IF regionParam = Null THEN "" ELSE regionParam.v
             rangeKey == IF rangeParam = Null THEN "24h" ELSE rangeParam.v
         IN  IF FindRegion(regionId) = 0
             THEN Response(400, [message |-> "Unknown region identifier supplied."])
             ELSE LET duration == Coalesce(TIME_RANGE_TO_DURATION(rangeKey),
                                           TIME_RANGE_TO_DURATION("24h"))
                      dateEnd == nowMs - EndBufferMs
                  IN  IF duration.t # "number"
                      \* dateEnd.getTime() - duration is NaN: toISOString of
                      \* the invalid date throws at line 48, before the try.
                      THEN Throw("RangeError")
                      ELSE HistoryUpstream(cf, dateEnd - duration.n, dateEnd, nowMs)

\* Whether the handler gets as far as its fetch to Cloudflare.
HistoryReachesFetch(tokenSet, regionParam, rangeParam) ==
    /\ tokenSet
    /\ FindRegion(IF regionParam = Null THEN "" ELSE regionParam.v) # 0
    /\ Coalesce(TIME_RANGE_TO_DURATION(IF rangeParam = Null THEN "24h" ELSE rangeParam.v),
                TIME_RANGE_TO_DURATION("24h")).t = "number"

(***************************************************************************)
(* GET /api/latency, final revision (network.ts:672-881).                  *)
(***************************************************************************)
LatencySnapshot(regionId, location, latencyIdle, latencyLoaded, jitterIdle, capturedAt) ==
    [regionId |-> regionId, location |-> location, latencyIdle |-> latencyIdle,
     latencyLoaded |-> latencyLoaded, jitterIdle |-> jitterIdle, capturedAt |-> capturedAt]

buildEmptySnapshot(regionId, countryCode, nowMs) ==
    LatencySnapshot(regionId, countryCode, Null, Null, Null, ToISOString(nowMs))

\* What the fetch of the history endpoint does: it rejects, it answers OK
\* with a body that is no JSON, or it delivers the history route's response.
FetchReject == [kind |-> "reject"]
FetchMalformed == [kind |-> "malformed"]
FetchResponse(resp) == [kind |-> "response", resp |-> resp]

\* The try block of fetchLatestHistorySnapshot for a delivered response
\* (lines 832-857): latestPoint is the last point of the payload.
SnapshotOfResponse(regionId, countryCode, resp, nowMs) ==
    IF IsThrow(resp) \/ ~ResponseOk(resp)
    THEN buildEmptySnapshot(regionId, countryCode, nowMs)
    ELSE LET pts == resp.body.points
             latest(k) == IF Len(pts) > 0 THEN pts[Len(pts)][k] ELSE Undefined
         IN  LatencySnapshot(
                 regionId, countryCode,
                 Coalesce(latest("latencyIdle"), Null),
                 Coalesce(latest("latencyLoaded"), Null),
                 Coalesce(latest("jitterIdle"), Null),
                 Coalesce(Coalesce(latest("timestamp"), resp.body.queriedAt),
                          ToISOString(nowMs)))

\* fetchLatestHistorySnapshot without its catch: a rejected fetch and an
\* unparsable body reject the promise.
fetchLatestHistorySnapshot_NoCatch(regionId, countryCode, outcome, nowMs) ==
    IF outcome.kind \in {"reject", "malformed"} THEN Throw("Error")
    ELSE Return(SnapshotOfResponse(regionId, countryCode, outcome.resp, nowMs))

\* The promise of fetchLatestHistorySnapshot: fulfilled with a snapshot.
fetchLatestHistorySnapshot(regionId, countryCode, outcome, nowMs) ==
    IF outcome.kind \in {"reject", "malformed"}
    THEN Return(buildEmptySnapshot(regionId, countryCode, nowMs))
    ELSE Return(SnapshotOfResponse(regionId, countryCode, outcome.resp, nowMs))

parseRangeParam(value) ==
    IF value # Null /\ value.v \in {"1h", "24h", "7d", "30d"} THEN value.v ELSE "1h"

\* value.trim(): the piece without its surrounding blanks.
TrimPiece(piece) == piece.id

\* requestedRegionIds is truthy: the parameter is present and not "".
RegionsGiven(regionsParam) ==
    regionsParam # Null /\ regionsParam.pieces # <<Piece("")>>

\* split(",").map(trim).filter(length > 0), or every id of CLOUD_REGIONS.
RegionIdsOf(regionsParam) ==
    IF RegionsGiven(regionsParam)
    THEN LET trimmed == [i \in 1..Len(regionsParam.pieces) |->
                             TrimPiece(regionsParam.pieces[i])]
         IN  SelectSeq(trimmed, LAMBDA value : value # "")
    ELSE [i \in 1..Len(CLOUD_REGIONS) |-> CLOUD_REGIONS[i].id]

\* No deduplication.
UniqueOf_Identity(ids) == ids

\* Array.from(new Set(regionIds)): the first occurrence of each id, in order.
RECURSIVE UniqueOf(_)
UniqueOf(ids) ==
    IF Len(ids) = 0 THEN <<>>
    ELSE LET front == UniqueOf(SubSeq(ids, 1, Len(ids) - 1))
             id == ids[Len(ids)]
         IN  IF \E i \in 1..Len(front) : front[i] = id THEN front ELSE Append(front, id)

\* The request is refused as soon as one id is unknown.
KnownRegionsOf_Strict(uniqueRegionIds) ==
    IF \E i \in 1..Len(uniqueRegionIds) : FindRegion(uniqueRegionIds[i]) = 0 THEN <<>>
    ELSE [i \in 1..Len(uniqueRegionIds) |-> CLOUD_REGIONS[FindRegion(uniqueRegionIds[i])]]

\* uniqueRegionIds.map(find).filter(Boolean)
KnownRegionsOf(uniqueRegionIds) ==
    LET found == SelectSeq(uniqueRegionIds, LAMBDA regionId : FindRegion(regionId) # 0)
    IN  [i \in 1..Len(found) |-> CLOUD_REGIONS[FindRegion(found[i])]]

\* a.localeCompare(b) over the ids enumerated.
LocaleOrder == <<"aws-london", "aws-virginia", "bogus">>
\* createCacheKey: `${range}::${sorted ids joined by ","}`, kept as the pair
\* of its parts (no id holds a comma, the range is one of four keys).
createCacheKey(regionIds, range) ==
    [range |-> range,
     ids |-> SelectSeq(LocaleOrder,
                       LAMBDA id : \E i \in 1..Len(regionIds) : regionIds[i] = id)]

NoEntry == [t |-> "undefined"]
CacheEntry(data, fetchedAt) == [t |-> "entry", data |-> data, fetchedAt |-> fetchedAt]
\* snapshotCache.get(cacheKey)
CacheGet(cacheKey) ==
    IF cacheKey \in DOMAIN snapshotCache THEN snapshotCache[cacheKey] ELSE NoEntry
\* snapshotCache.set(cacheKey, entry)
CacheSet(cacheKey, entry) ==
    [k \in DOMAIN snapshotCache \cup {cacheKey} |->
        IF k = cacheKey THEN entry ELSE snapshotCache[k]]

\* The entry is served up to and including the age CACHE_TTL_MS.
IsFresh_Inclusive(cached, now) ==
    cached # NoEntry /\ now - cached.fetchedAt <= CACHE_TTL_MS

\* Line 742: cached && now - cached.fetchedAt < CACHE_TTL_MS
IsFresh(cached, now) ==
    cached # NoEntry /\ now - cached.fetchedAt < CACHE_TTL_MS

LatencyBody(data, cachedAtMs) ==
    [data |-> data, cachedAt |-> ToISOString(cachedAtMs), cacheTtlMs |-> CACHE_TTL_MS]

Pending == [state |-> "pending"]
Settled(outcome, result) == [state |-> "settled", outcome |-> outcome, result |-> result]

\* cf records what Cloudflare does to the fetch of a history request.
IdleRequest ==
    [pc |-> "idle", route |-> "none", regions |-> Null, range |-> Null,
     now |-> 0, fetches |-> <<>>, cf |-> CfNone, response |-> NoResponse]

\* What a request in progress or served derives from its query.
UniqueRegionIds(r) == UniqueOf(RegionIdsOf(req[r].regions))
KnownRegions(r) == KnownRegionsOf(UniqueRegionIds(r))
CacheKey(r) == createCacheKey(UniqueRegionIds(r), parseRangeParam(req[r].range))

ApiIdle ==
    /\ token = FALSE
    /\ clock = 0
    /\ snapshotCache = [k \in {} |-> NoEntry]
    /\ req = <<>>
    /\ started = 0
    /\ upstream = 0

InitApi(slots) ==
    /\ token \in BOOLEAN
    /\ clock = ClockStart
    /\ snapshotCache = [k \in {} |-> NoEntry]
    /\ req = [r \in 1..slots |-> IdleRequest]
    /\ started = 0
    /\ upstream = 0

\* Lines 702-758: the handler up to its first await.  It answers at once
\* (no token, no known region, a fresh cache entry) or issues one history
\* fetch per known region.
StartLatency(r, queries) ==
    /\ req[r].pc \in {"idle", "done"}
    /\ started < MaxRequests
    /\ started' = started + 1
    /\ \E query \in queries :
        LET uniqueRegionIds == UniqueOf(RegionIdsOf(query.regions))
            knownRegions == KnownRegionsOf(uniqueRegionIds)
            cacheKey == createCacheKey(uniqueRegionIds, parseRangeParam(query.range))
            cached == CacheGet(cacheKey)
            base == [IdleRequest EXCEPT !.route = "latency", !.regions = query.regions,
                                        !.range = query.range, !.now = clock]
            answer(resp) == req' = [req EXCEPT ![r] = [base EXCEPT !.pc = "done",
                                                                   !.response = resp]]
        IN  IF ~token
            THEN answer(Response(500, [message |-> TokenMessage])) /\ UNCHANGED upstream
            ELSE IF Len(knownRegions) = 0
            THEN /\ answer(Response(400,
                        [message |-> "No matching Cloudflare regions found for request."]))
                 /\ UNCHANGED upstream
            ELSE IF IsFresh(cached, clock)
            THEN /\ answer(Response(200, LatencyBody(cached.data, cached.fetchedAt)))
                 /\ UNCHANGED upstream
            ELSE /\ req' = [req EXCEPT ![r] =
                        [base EXCEPT !.pc = "fetching",
                                     !.fetches = [i \in 1..Len(knownRegions) |-> Pending]]]
                 /\ upstream' = upstream + Len(knownRegions)
    /\ UNCHANGED <<token, clock, snapshotCache>>
    /\ UNCHANGED <<normVars, statsVars, parseVars, circleVars, mapVars>>

\* One fetchLatestHistorySnapshot of the Promise.all settles (lines 806-867).
\* The history route answers within the step, for what Cloudflare does.
SettleFetch(r, outcomes, cfs) ==
    /\ req[r].pc = "fetching"
    /\ \E i \in 1..Len(req[r].fetches) :
        /\ req[r].fetches[i] = Pending
        /\ \E outcome \in outcomes \cup
                {FetchResponse(HistoryRoute(token, QStr(KnownRegions(r)[i].id),
                                            QStr(parseRangeParam(req[r].range)), cf, clock)) :
                    cf \in cfs} :
            req' = [req EXCEPT ![r].fetches[i] =
                       Settled(outcome,
                               fetchLatestHistorySnapshot(KnownRegions(r)[i].id,
                                                          KnownRegions(r)[i].countryCode,
                                                          outcome, clock))]
    /\ UNCHANGED <<token, clock, snapshotCache, started, upstream>>
    /\ UNCHANGED <<normVars, statsVars, parseVars, circleVars, mapVars>>

\* Lines 760-786: Promise.all has every snapshot; the entry is stored under
\* the time read before the fetches and the response is sent.  A rejected
\* fetch rejects Promise.all and the handler ends in an error response.
FinishLatency(r) ==
    /\ req[r].pc = "fetching"
    /\ \A i \in 1..Len(req[r].fetches) : req[r].fetches[i] # Pending
    /\ LET results == [i \in 1..Len(req[r].fetches) |-> req[r].fetches[i].result]
           snapshots == [i \in 1..Len(results) |-> results[i].value]
       IN  IF \E i \in 1..Len(results) : IsThrow(results[i])
           THEN /\ req' = [req EXCEPT ![r].pc = "done",
                                      ![r].response = Response(500, [message |-> "Error"])]
                /\ UNCHANGED snapshotCache
           ELSE /\ snapshotCache' = CacheSet(CacheKey(r), CacheEntry(snapshots, req[r].now))
                /\ req' = [req EXCEPT ![r].pc = "done",
                                      ![r].response =
                                          Response(200, LatencyBody(snapshots, req[r].now))]
    /\ UNCHANGED <<token, clock, started, upstream>>
    /\ UNCHANGED <<normVars, statsVars, parseVars, circleVars, mapVars>>

\* GET /api/latency/history called by a client.
GetHistory(r, queries, cfs) ==
    /\ req[r].pc \in {"idle", "done"}
    /\ started < MaxRequests
    /\ started' = started + 1
    /\ \E query \in queries, cf \in cfs :
        /\ req' = [req EXCEPT ![r] =
               [IdleRequest EXCEPT !.pc = "done", !.route = "history",
                                   !.regions = query.region, !.range = query.range,
                                   !.now = clock, !.cf = cf,
                                   !.response = HistoryRoute(token, query.region, query.range,
                                                             cf, clock)]]
        /\ upstream' = IF HistoryReachesFetch(token, query.region, query.range)
                       THEN upstream + 1 ELSE upstream
    /\ UNCHANGED <<token, clock, snapshotCache>>
    /\ UNCHANGED <<normVars, statsVars, parseVars, circleVars, mapVars>>

\* Time passes: Date.now() grows by one of the given amounts.
Tick(deltas) ==
    /\ \E d \in deltas :
          /\ clock + d <= ClockStart + MaxTicks * CACHE_TTL_MS
          /\ clock' = clock + d
    /\ UNCHANGED <<token, snapshotCache, req, started, upstream>>
    /\ UNCHANGED <<normVars, statsVars, parseVars, circleVars, mapVars>>

(***************************************************************************)
(* The requests and upstream outcomes enumerated.                          *)
(***************************************************************************)
\* Two timestamped entries, latencyIdle 12 and 15.
BodyTwoEntries ==
    ResultOf(Arr(<<
        ObjOf(<< <<"dimensions", ObjOf(<< <<"datetime", T1>> >>)>>,
                 <<"metrics", ObjOf(<< <<"latencyIdle", Num(12)>>,
                                       <<"latencyLoaded", Num(30)>> >>)>> >>),
        ObjOf(<< <<"dimensions", ObjOf(<< <<"datetime", T2>> >>)>>,
                 <<"metrics", ObjOf(<< <<"latencyIdle", Num(15)>>,
                                       <<"jitterIdle", Num(2)>> >>)>> >>) >>), Undefined)
\* Two timestamped entries that carry p50 12 and 15, as an array of entries
\* and as an object of parallel arrays.
BodyEntriesP50 ==
    ResultOf(Arr(<<
        ObjOf(<< <<"dimensions", ObjOf(<< <<"datetime", T1>> >>)>>,
                 <<"p50", Num(12)>>,
                 <<"metrics", ObjOf(<< <<"p50", Num(12)>> >>)>> >>),
        ObjOf(<< <<"dimensions", ObjOf(<< <<"datetime", T2>> >>)>>,
                 <<"p50", Num(15)>>,
                 <<"metrics", ObjOf(<< <<"p50", Num(15)>> >>)>> >>) >>), Undefined)
BodyParallelP50 ==
    ResultOf(ObjOf(<< <<"timestamps", Arr(<<T1, T2>>)>>,
                      <<"p50", Arr(<<Num(12), Num(15)>>)>> >>), Undefined)
\* Two timestamped entries, the later one (t2, latencyIdle 15) listed first.
BodyOutOfOrder ==
    ResultOf(Arr(<<
        ObjOf(<< <<"dimensions", ObjOf(<< <<"datetime", T2>> >>)>>,
                 <<"metrics", ObjOf(<< <<"latencyIdle", Num(15)>>,
                                       <<"jitterIdle", Num(2)>> >>)>> >>),
        ObjOf(<< <<"dimensions", ObjOf(<< <<"datetime", T1>> >>)>>,
                 <<"metrics", ObjOf(<< <<"latencyIdle", Num(12)>>,
                                       <<"latencyLoaded", Num(30)>> >>)>> >>) >>), Undefined)
BodyNoData == ObjOf(<< <<"result", EmptyObj>> >>)
BodyNullHistogram == ResultOf(Undefined, Arr(<<Null>>))

CfFew == {CfOk(BodyTwoEntries)}
CfSome ==
    {CfOk(BodyTwoEntries), CfStatus(429), CfOk(BodyEntriesP50), CfOk(BodyParallelP50)}
CfAll ==
    {CfReject, CfStatus(429), CfMalformed,
     CfOk(BodyTwoEntries), CfOk(BodyNoData), CfOk(BodyNullHistogram),
     CfOk(BodyOutOfOrder)}

LatencyRegionParams ==
    {Null,
     Regions(<<Piece("")>>),
     Regions(<<Piece(""), Piece("")>>),
     Regions(<<Piece("aws-virginia")>>),
     Regions(<<Piece("bogus")>>),
     Regions(<<Piece("aws-london"), Padded("aws-virginia")>>),
     Regions(<<Piece("aws-virginia"), Piece("aws-virginia")>>),
     Regions(<<Piece("aws-virginia"), Piece("bogus")>>),
     Regions(<<Piece("bogus"), Padded("aws-london"), Piece("bogus")>>)}

LatencyQueries ==
    {[regions |-> regions, range |-> Null] : regions \in LatencyRegionParams}
    \cup {[regions |-> Regions(<<Piece("aws-virginia")>>), range |-> QStr("24h")],
          [regions |-> Regions(<<Piece("bogus")>>), range |-> QStr("bad")]}

HistoryQueries ==
    {[region |-> region, range |-> range] :
        region \in {Null, QStr("aws-virginia"), QStr("bogus")},
        range \in {Null, QStr("1h"), QStr("bad")}}

FetchQueries ==
    {[regions |-> regions, range |-> Null] :
        regions \in {Regions(<<Piece("aws-london")>>),
                     Regions(<<Piece("aws-virginia"), Piece("aws-london")>>)}}

(***************************************************************************)
(* Spec: the two routes serving one request at a time, over the queries    *)
(* enumerated.  SpecFetch: GET /api/latency over every outcome of its      *)
(* history fetches.                                                        *)
(***************************************************************************)
Init ==
    /\ NormIdle
    /\ statsIn = <<>>
    /\ statsOut = NotCalled
    /\ InitApi(1)
    /\ ParseIdle
    /\ CircleIdle
    /\ MapIdle

Next ==
    \/ \E r \in DOMAIN req : StartLatency(r, LatencyQueries)
    \/ \E r \in DOMAIN req : SettleFetch(r, {FetchReject}, CfFew)
    \/ \E r \in DOMAIN req : FinishLatency(r)
    \/ \E r \in DOMAIN req : GetHistory(r, HistoryQueries, CfSome)
    \/ Tick({CACHE_TTL_MS})

Spec == Init /\ [][Next]_vars

NextFetch ==
    \/ \E r \in DOMAIN req : StartLatency(r, FetchQueries)
    \/ \E r \in DOMAIN req : SettleFetch(r, {FetchReject, FetchMalformed}, CfAll)
    \/ \E r \in DOMAIN req : FinishLatency(r)
    \/ Tick({CACHE_TTL_MS})

SpecFetch == Init /\ [][NextFetch]_vars

(***************************************************************************)
(* SpecCache: GET /api/latency served to two clients at once, so that a    *)
(* request can arrive while another awaits its fetches, with the clock     *)
(* moving to either side of the time to live.                              *)
(***************************************************************************)
CacheQueries ==
    {[regions |-> regions, range |-> Null] :
        regions \in {Regions(<<Piece("aws-virginia")>>), Regions(<<Piece("aws-london")>>)}}

InitCache ==
    /\ NormIdle
    /\ statsIn = <<>>
    /\ statsOut = NotCalled
    /\ InitApi(2)
    /\ ParseIdle
    /\ CircleIdle
    /\ MapIdle

NextCache ==
    \/ \E r \in DOMAIN req : StartLatency(r, CacheQueries)
    \/ \E r \in DOMAIN req : SettleFetch(r, {FetchReject}, CfFew)
    \/ \E r \in DOMAIN req : FinishLatency(r)
    \/ Tick({CACHE_TTL_MS - 1, CACHE_TTL_MS})

SpecCache == InitCache /\ [][NextCache]_vars

(***************************************************************************)
(* SpecNorm: the normalizer applied to an enumerated upstream body, as     *)
(* GET /api/latency/history applies it (lines 75-81).                      *)
(***************************************************************************)
InitNorm ==
    /\ \E input \in NormInputs :
        /\ payload = input[1]
        /\ context = input[2]
    /\ points = NotCalled
    /\ histogramOut = NotCalled
    /\ npc = "input"
    /\ statsIn = <<>>
    /\ statsOut = NotCalled
    /\ ApiIdle
    /\ ParseIdle
    /\ CircleIdle
    /\ MapIdle

\* extractHistogramPoints called on the body's histogram_0.
CallExtractHistogramPoints ==
    /\ npc = "input"
    /\ histogramOut' = extractHistogramPoints(HistogramOf(payload), context)
    /\ npc' = "histogram"
    /\ UNCHANGED <<payload, context, points, statsIn, statsOut>>
    /\ UNCHANGED <<apiVars, parseVars, circleVars, mapVars>>

\* extractHistoryPoints called on the body.
CallExtractHistoryPoints ==
    /\ npc = "histogram"
    /\ points' = extractHistoryPoints(payload, context)
    /\ npc' = "extracted"
    /\ UNCHANGED <<payload, context, histogramOut, statsIn, statsOut>>
    /\ UNCHANGED <<apiVars, parseVars, circleVars, mapVars>>

\* computeHistoryStats called on the points extracted (line 81); it is not
\* reached when the extraction threw.
CallStatsOfPoints ==
    /\ npc = "extracted"
    /\ ~IsThrow(points)
    /\ statsIn' = points.value
    /\ statsOut' = computeHistoryStats(points.value)
    /\ npc' = "done"
    /\ UNCHANGED <<payload, context, points, histogramOut>>
    /\ UNCHANGED <<apiVars, parseVars, circleVars, mapVars>>

NextNorm ==
    \/ CallExtractHistogramPoints
    \/ CallExtractHistoryPoints
    \/ CallStatsOfPoints

SpecNorm == InitNorm /\ [][NextNorm]_vars

(***************************************************************************)
(* SpecStats: computeHistoryStats applied to an enumerated point sequence. *)
(***************************************************************************)
InitStats ==
    /\ NormIdle
    /\ statsIn \in StatsInputs
    /\ statsOut = NotCalled
    /\ ApiIdle
    /\ ParseIdle
    /\ CircleIdle
    /\ MapIdle

CallComputeHistoryStats ==
    /\ npc = "idle"
    /\ statsOut = NotCalled
    /\ statsOut' = computeHistoryStats(statsIn)
    /\ UNCHANGED <<payload, context, points, histogramOut, npc, statsIn>>
    /\ UNCHANGED <<apiVars, parseVars, circleVars, mapVars>>

NextStats == CallComputeHistoryStats

SpecStats == InitStats /\ [][NextStats]_vars

(***************************************************************************)
(* SpecParse: parseNullableNumber and toArrayOfNumbers applied to the      *)
(* values a JSON body can hold in a metric field.                          *)
(***************************************************************************)
ParseScalars ==
    { Undefined, Null, NaN, Num(0), Num(12), Num(0 - 5),
      Str(<<>>), Str(<<" ">>), Str(<<"1", "2">>), Str(<<" ", "7", " ">>),
      Str(<<"-", "3">>), Str(<<"a", "b">>), Str(<<"1", "a">>),
      Bool(TRUE), Bool(FALSE), EmptyObj }

ParseInputs ==
    ParseScalars \cup {Arr(a) : a \in SeqsUpTo(ParseScalars, MaxParse)}

Called(fn, value) == [t |-> "return", fn |-> fn, value |-> value]

InitParse ==
    /\ NormIdle
    /\ statsIn = <<>>
    /\ statsOut = NotCalled
    /\ ApiIdle
    /\ parseIn \in ParseInputs
    /\ parseOut = NotCalled
    /\ CircleIdle
    /\ MapIdle

CallParseNullableNumber ==
    /\ parseOut = NotCalled
    /\ parseOut' = Called("parseNullableNumber", parseNullableNumber(parseIn))
    /\ UNCHANGED <<parseIn, normVars, statsVars, apiVars, circleVars, mapVars>>

CallToArrayOfNumbers ==
    /\ parseOut = NotCalled
    /\ parseOut' = Called("toArrayOfNumbers", toArrayOfNumbers(parseIn))
    /\ UNCHANGED <<parseIn, normVars, statsVars, apiVars, circleVars, mapVars>>

NextParse ==
    \/ CallParseNullableNumber
    \/ CallToArrayOfNumbers

SpecParse == InitParse /\ [][NextParse]_vars

(***************************************************************************)
(* SpecCircle: generateCircleCoordinates (ExchangeMap.tsx:2478-2512).      *)
(*                                                                         *)
(* Angles are whole degrees.  The trigonometry is not computed: what       *)
(* Math.asin returns is some latitude of [-90, 90] and what Math.atan2     *)
(* returns is some angle of [-180, 180], drawn anew for every bearing, so  *)
(* centerLat and radiusKm, which enter only through these terms, are not   *)
(* inputs of the model.  The arithmetic on the longitude is computed.      *)
(***************************************************************************)
\* a % b of JavaScript for integers and b > 0: the sign of the dividend.
RemJs(a, b) == IF a >= 0 THEN a % b ELSE 0 - ((0 - a) % b)

\* The normalisation with 180 added instead of 540.
lngDeg_Plus180(pointLngDeg) == RemJs(pointLngDeg + 180, 360) - 180

\* Line 2507: ((pointLng * 180) / Math.PI + 540) % 360 - 180
lngDeg(pointLngDeg) == RemJs(pointLngDeg + 540, 360) - 180

CenterLngs == {0 - 180, 0 - 179, 0, 179, 180}
\* Results of Math.atan2, in degrees.
Atan2Results == {0 - 180, 0 - 1, 0, 1, 180}
\* Results of Math.asin, in degrees.
AsinResults == {0 - 90, 90}

InitCircle ==
    /\ NormIdle
    /\ statsIn = <<>>
    /\ statsOut = NotCalled
    /\ ApiIdle
    /\ ParseIdle
    /\ MapIdle
    /\ \E centerLng \in CenterLngs, steps \in 1..MaxSteps :
          circle = [pc |-> "loop", centerLng |-> centerLng, steps |-> steps,
                    i |-> 0, coordinates |-> <<>>]

\* One iteration of the loop of lines 2488-2510.
CirclePoint ==
    /\ circle.pc = "loop"
    /\ circle.i <= circle.steps
    /\ \E pointLat \in AsinResults, offset \in Atan2Results :
          LET pointLng == circle.centerLng + offset
          IN  circle' = [circle EXCEPT
                            !.coordinates = Append(@, <<lngDeg(pointLng), pointLat>>),
                            !.i = @ + 1]
    /\ UNCHANGED <<normVars, statsVars, apiVars, parseVars, mapVars>>

\* Line 2512: return coordinates.
CircleReturn ==
    /\ circle.pc = "loop"
    /\ circle.i > circle.steps
    /\ circle' = [circle EXCEPT !.pc = "done"]
    /\ UNCHANGED <<normVars, statsVars, apiVars, parseVars, mapVars>>

NextCircle ==
    \/ CirclePoint
    \/ CircleReturn

SpecCircle == InitCircle /\ [][NextCircle]_vars

(***************************************************************************)
(* Claims about the normalizer (SpecNorm) and the statistics (SpecStats).  *)
(***************************************************************************)
Extracted == npc \in {"extracted", "done"}
HistogramCalled == npc \in {"histogram", "extracted", "done"}

\* The body is { result: { serie_0: { timestamps: [t1, t2], latencyIdle: [10, 20] } } }
\* with no other key in serie_0.
C1_Case ==
    /\ SerieOf(payload).t = "object"
    /\ DOMAIN SerieOf(payload).o = {"timestamps", "latencyIdle"}
    /\ Get(SerieOf(payload), "timestamps") = Arr(<<T1, T2>>)
    /\ Get(SerieOf(payload), "latencyIdle") = Arr(<<Num(10), Num(20)>>)

\* C1: for the parallel-array serie {timestamps:[t1,t2], latencyIdle:[10,20]}
\* (no p50/p75/p25 keys) extractHistoryPoints yields exactly two points, in
\* order, whose latencyIdle are 10 and 20.
C1_ParallelArrayLatencyIdle ==
    (Extracted /\ C1_Case) =>
        /\ ~IsThrow(points)
        /\ Len(points.value) = 2
        /\ points.value[1].timestamp = T1 /\ points.value[1].latencyIdle = Num(10)
        /\ points.value[2].timestamp = T2 /\ points.value[2].latencyIdle = Num(20)

\* serie_0 is present in the body, an array or an object, and yields no
\* point in either of its shapes.
C2_SerieYieldsNothing ==
    /\ SerieOf(payload).t \in {"array", "object"}
    /\ Len(extractSeriePoints(SerieOf(payload))) = 0

\* C2: whenever serie_0 is present but yields nothing and histogram_0 has
\* n entries, extractHistoryPoints falls back to the histogram shape and
\* returns the n histogram points.
C2_FallsBackToHistogram ==
    (Extracted /\ C2_SerieYieldsNothing
        /\ Len(normalizeHistogramEntries(HistogramOf(payload))) > 0) =>
        /\ points = histogramOut
        /\ ~IsThrow(points) =>
              Len(points.value) = Len(normalizeHistogramEntries(HistogramOf(payload)))

\* Neither serie_0 nor histogram_0 is an array or an object.
C3_NoRecognizableShape ==
    /\ SerieOf(payload).t \notin {"array", "object"}
    /\ HistogramOf(payload).t \notin {"array", "object"}

\* C3: for every body (here already for every body that is a JSON object)
\* extractHistoryPoints returns a sequence without throwing, and the empty
\* sequence when no recognizable shape is present.
C3_NeverThrows ==
    (Extracted /\ payload.t = "object") =>
        /\ ~IsThrow(points)
        /\ C3_NoRecognizableShape => points = Return(<<>>)

\* The histogram entries of the body and the window of the call.
C10_N == Len(normalizeHistogramEntries(HistogramOf(payload)))
C10_Span == context.dateEnd - context.dateStart
C10_Time(i) == IsoToMs(histogramOut.value[i + 1].timestamp)
C10_HasNullEntry ==
    \E k \in 1..C10_N : IsNullish(normalizeHistogramEntries(HistogramOf(payload))[k])

\* C10 as stated: for n >= 2 histogram entries the points returned are n and
\* the i-th timestamp is exactly start + i*(end-start)/(n-1).
C10_ExactlySpaced ==
    (HistogramCalled /\ C10_N >= 2 /\ ~IsThrow(histogramOut)) =>
        /\ Len(histogramOut.value) = C10_N
        /\ \A i \in 0..(C10_N - 1) :
              (C10_Time(i) - context.dateStart) * (C10_N - 1) = i * C10_Span

\* C10 (amended): for n >= 2 histogram entries extractHistogramPoints throws
\* when an entry is null and otherwise returns n points whose i-th timestamp
\* is start + i*(end-start)/(n-1) cut to a whole millisecond; the first
\* equals start, the last equals end, the timestamps do not decrease and two
\* consecutive gaps differ by at most one millisecond.
C10_SpacedToTheMillisecond ==
    (HistogramCalled /\ C10_N >= 2) =>
        IF C10_HasNullEntry THEN IsThrow(histogramOut)
        ELSE /\ ~IsThrow(histogramOut)
             /\ Len(histogramOut.value) = C10_N
             /\ \A i \in 0..(C10_N - 1) :
                   LET scaled == (C10_Time(i) - context.dateStart) * (C10_N - 1)
                   IN  scaled <= i * C10_Span /\ i * C10_Span < scaled + (C10_N - 1)
             /\ C10_Time(0) = context.dateStart
             /\ C10_Time(C10_N - 1) = context.dateEnd
             /\ \A i \in 0..(C10_N - 2) : C10_Time(i) <= C10_Time(i + 1)
             /\ \A i, j \in 0..(C10_N - 2) :
                   (C10_Time(i + 1) - C10_Time(i)) - (C10_Time(j + 1) - C10_Time(j)) \in -1..1

\* Three entries over a window that two steps do not divide: the middle
\* timestamp is cut and the two gaps differ.
C10_Witness ==
    /\ HistogramCalled
    /\ C10_N = 3
    /\ ~IsThrow(histogramOut)
    /\ C10_Span % 2 = 1
    /\ C10_Time(2) - C10_Time(1) # C10_Time(1) - C10_Time(0)

\* The non-null latencyIdle values of the input of computeHistoryStats.
C8_Idx == {i \in 1..Len(statsIn) : statsIn[i].latencyIdle # Null}
C8_Val(i) == statsIn[i].latencyIdle.n
RECURSIVE C8_SumOver(_)
C8_SumOver(I) ==
    IF I = {} THEN 0
    ELSE LET i == CHOOSE k \in I : TRUE IN C8_Val(i) + C8_SumOver(I \ {i})
\* numerator and denominator of a JavaScript number
C8_Numer(v) == IF "n" \in DOMAIN v THEN v.n ELSE v.num
C8_Denom(v) == IF "n" \in DOMAIN v THEN 1 ELSE v.den

\* C8: with at least one non-null latencyIdle, computeHistoryStats returns the
\* minimum, the maximum and the arithmetic mean of exactly the non-null
\* values, and their number as the sample count; [10,20,30] gives 10, 30, 20, 3.
C8_StatsOverNonNull ==
    (statsOut # NotCalled /\ npc = "idle" /\ C8_Idx # {}) =>
        /\ statsOut.samples = Cardinality(C8_Idx)
        /\ \E i \in C8_Idx : statsOut.min = Num(C8_Val(i))
        /\ \A i \in C8_Idx : statsOut.min.n <= C8_Val(i)
        /\ \E i \in C8_Idx : statsOut.max = Num(C8_Val(i))
        /\ \A i \in C8_Idx : statsOut.max.n >= C8_Val(i)
        /\ C8_Numer(statsOut.avg) * Cardinality(C8_Idx)
              = C8_SumOver(C8_Idx) * C8_Denom(statsOut.avg)
        /\ [i \in 1..Len(statsIn) |-> statsIn[i].latencyIdle] = <<Num(10), Num(20), Num(30)>>
              => statsOut = [min |-> Num(10), max |-> Num(30), avg |-> Num(20), samples |-> 3]

\* Null entries among the values, and a mean that is no integer.
C8_Witness ==
    /\ statsOut # NotCalled
    /\ npc = "idle"
    /\ [i \in 1..Len(statsIn) |-> statsIn[i].latencyIdle] = <<Num(10), Null, Num(20)>>
    /\ statsOut.samples = 2
    /\ statsOut.avg = Num(15)

\* C9 as stated: with no non-null latencyIdle the result is
\* {min:null, max:null, avg:null, sampleCount:0}.
C9_EmptyStatsSampleCount ==
    (statsOut # NotCalled /\ npc = "idle" /\ C8_Idx = {}) =>
        statsOut = [min |-> Null, max |-> Null, avg |-> Null, sampleCount |-> 0]

\* C9 (amended): with an empty sequence or no non-null latencyIdle,
\* computeHistoryStats returns {min:null, max:null, avg:null, samples:0}: the
\* count is 0 under the field name samples, and no zero stands for min, max
\* or avg.
C9_EmptyStatsSamples ==
    (statsOut # NotCalled /\ npc = "idle" /\ C8_Idx = {}) =>
        /\ DOMAIN statsOut = {"min", "max", "avg", "samples"}
        /\ statsOut.min = Null /\ statsOut.max = Null /\ statsOut.avg = Null
        /\ statsOut.samples = 0

\* A sequence of points none of which carries a latencyIdle.
C9_Witness ==
    /\ statsOut # NotCalled
    /\ npc = "idle"
    /\ Len(statsIn) = 2
    /\ C8_Idx = {}
    /\ statsOut.samples = 0

(***************************************************************************)
(* Claims about the proxy routes.                                          *)
(***************************************************************************)
Served(r, route) == req[r].pc = "done" /\ req[r].route = route
KnownIds == {CLOUD_REGIONS[i].id : i \in 1..Len(CLOUD_REGIONS)}
\* The ids a served /api/latency request asks for, read off its query.
RequestedIds(r) ==
    IF req[r].regions = Null \/ req[r].regions.pieces = <<Piece("")>> THEN KnownIds
    ELSE {req[r].regions.pieces[i].id : i \in 1..Len(req[r].regions.pieces)} \ {""}
NamesUnknown(r) == RequestedIds(r) \ KnownIds # {}
DataIds(r) ==
    {req[r].response.body.data[i].regionId : i \in 1..Len(req[r].response.body.data)}

\* C4 as stated: with the token configured, a request naming an unknown
\* region id is answered 400 by both endpoints, also when the list of
\* /api/latency mixes known and unknown ids.
C4_UnknownRegionIs400 ==
    \A r \in DOMAIN req :
        /\ (token /\ Served(r, "history") /\ req[r].regions \notin {QStr(id) : id \in KnownIds})
              => req[r].response.status = 400
        /\ (token /\ Served(r, "latency") /\ NamesUnknown(r))
              => req[r].response.status = 400

\* C4, amended: with the token configured, /api/latency/history answers 400
\* to a region that is no known id, and /api/latency answers 400 exactly
\* when none of the requested ids is known; a list that mixes known and
\* unknown ids is served 200 with snapshots of its known ids only.
C4_400OnlyWhenNoKnownRegion ==
    \A r \in DOMAIN req :
        /\ (token /\ Served(r, "history") /\ req[r].regions \notin {QStr(id) : id \in KnownIds})
              => req[r].response.status = 400
        /\ (token /\ Served(r, "latency"))
              => /\ req[r].response.status = 400 <=> RequestedIds(r) \cap KnownIds = {}
                 /\ req[r].response.status # 400
                       => /\ req[r].response.status = 200
                          /\ DataIds(r) \subseteq KnownIds

C4_Witness ==
    /\ token
    /\ Served(1, "latency")
    /\ req[1].regions = Regions(<<Piece("aws-virginia"), Piece("bogus")>>)
    /\ req[1].response.status = 200
    /\ DataIds(1) = {"aws-virginia"}

\* C5 as stated: a successful /api/latency response carries exactly one
\* snapshot for each requested region id.
C5_OneSnapshotPerRequestedId ==
    \A r \in DOMAIN req :
        (Served(r, "latency") /\ req[r].response.status = 200)
            => /\ DataIds(r) = RequestedIds(r)
               /\ Len(req[r].response.body.data) = Cardinality(RequestedIds(r))

\* C5, amended: a successful /api/latency response carries exactly one
\* snapshot for each distinct requested id that is a known region, and none
\* for the requested ids that are unknown; no regions parameter asks for
\* every known region.
C5_OneSnapshotPerKnownRequestedId ==
    \A r \in DOMAIN req :
        (Served(r, "latency") /\ req[r].response.status = 200)
            => /\ DataIds(r) = RequestedIds(r) \cap KnownIds
               /\ Len(req[r].response.body.data) = Cardinality(RequestedIds(r) \cap KnownIds)

C5_Witness ==
    /\ Served(1, "latency")
    /\ req[1].regions = Regions(<<Piece("aws-virginia"), Piece("aws-virginia")>>)
    /\ req[1].response.status = 200
    /\ Len(req[1].response.body.data) = 1
    /\ Len(req[1].fetches) = 1

\* A history fetch of /api/latency failed: network error, unparsable body,
\* or a status that is not OK.
FetchFailed(fetch) ==
    \/ fetch.outcome.kind \in {"reject", "malformed"}
    \/ fetch.outcome.kind = "response" /\ fetch.outcome.resp.status \notin 200..299

AllNull(snapshot) ==
    /\ snapshot.latencyIdle = Null
    /\ snapshot.latencyLoaded = Null
    /\ snapshot.jitterIdle = Null

\* The known ids a request asks for, each once, in the order first asked.
RequestedKnown(r) ==
    LET ids == IF req[r].regions = Null \/ req[r].regions.pieces = <<Piece("")>>
               THEN [i \in 1..Len(CLOUD_REGIONS) |-> CLOUD_REGIONS[i].id]
               ELSE [i \in 1..Len(req[r].regions.pieces) |-> req[r].regions.pieces[i].id]
        firsts == {i \in 1..Len(ids) :
                      ids[i] \in KnownIds /\ \A j \in 1..(i - 1) : ids[j] # ids[i]}
    IN  [k \in 1..Cardinality(firsts) |->
            ids[CHOOSE i \in firsts : Cardinality({j \in firsts : j < i}) = k - 1]]

\* C6: with the token configured and a known region requested, /api/latency
\* answers 200 with a snapshot for every known requested region whatever
\* subset of its history fetches fails; a failed region's snapshot has
\* latencyIdle, latencyLoaded and jitterIdle null, and a region whose fetch
\* succeeded has the values of the last point of its own history.
C6_PartialResultsOverFailure ==
    \A r \in DOMAIN req :
        (token /\ Served(r, "latency") /\ Len(RequestedKnown(r)) > 0)
            => /\ req[r].response.status = 200
               /\ Len(req[r].response.body.data) = Len(RequestedKnown(r))
               /\ \A i \in 1..Len(req[r].fetches) :
                    LET fetch == req[r].fetches[i]
                        snapshot == req[r].response.body.data[i]
                    IN  /\ snapshot.regionId = RequestedKnown(r)[i]
                        /\ FetchFailed(fetch) => AllNull(snapshot)
                        /\ (~FetchFailed(fetch) /\ Len(fetch.outcome.resp.body.points) > 0)
                              => LET pts == fetch.outcome.resp.body.points
                                 IN  /\ snapshot.latencyIdle = pts[Len(pts)].latencyIdle
                                     /\ snapshot.latencyLoaded = pts[Len(pts)].latencyLoaded
                                     /\ snapshot.jitterIdle = pts[Len(pts)].jitterIdle

C6_Witness ==
    /\ token
    /\ Served(1, "latency")
    /\ Len(req[1].fetches) = 2
    /\ req[1].fetches[1].outcome = FetchReject
    /\ ~FetchFailed(req[1].fetches[2])
    /\ req[1].response.status = 200
    /\ AllNull(req[1].response.body.data[1])
    /\ req[1].response.body.data[2].latencyIdle = Num(15)

\* C7: without CLOUDFLARE_API_TOKEN both routes answer 500 with the message
\* that the token is not configured, whatever the query (an unknown region
\* included); no upstream request is issued and the cache stays empty.
C7_MissingTokenIsFatal ==
    ~token =>
        /\ \A r \in DOMAIN req :
              req[r].pc # "idle"
                  => /\ req[r].pc = "done"
                     /\ req[r].response = Response(500, [message |-> TokenMessage])
        /\ upstream = 0
        /\ DOMAIN snapshotCache = {}

C7_Witness ==
    /\ ~token
    /\ Served(1, "history")
    /\ req[1].regions = QStr("bogus")
    /\ req[1].response.status = 500
    /\ started = 2

\* C11: for a histogram with exactly one entry, the single point emitted
\* carries the end of the window (dateEnd) as its timestamp.
C11_SingleEntryAtRangeEnd ==
    (HistogramCalled /\ C10_N = 1 /\ ~IsThrow(histogramOut)) =>
        /\ Len(histogramOut.value) = 1
        /\ histogramOut.value[1].timestamp = ToISOString(context.dateEnd)

\* The characters of the timestamps enumerated, in code-unit order.
C12_CharOrder == <<" ", "0", "1", "2", "3", "4", "5", "6", "7", "8", "9", "Z", "t">>
C12_Rank(c) == CHOOSE i \in 1..Len(C12_CharOrder) : C12_CharOrder[i] = c
\* a <= b for two strings, character by character.
RECURSIVE C12_StrLeq(_, _)
C12_StrLeq(a, b) ==
    IF Len(a) = 0 THEN TRUE
    ELSE IF Len(b) = 0 THEN FALSE
    ELSE IF a[1] # b[1] THEN C12_Rank(a[1]) < C12_Rank(b[1])
    ELSE C12_StrLeq(Tail(a), Tail(b))

\* C12: the sequence extractHistoryPoints returns is ordered by ascending
\* timestamp, also when the upstream entries or timestamps arrive out of
\* order.
C12_AscendingTimestamps ==
    (Extracted /\ ~IsThrow(points)) =>
        \A i, j \in 1..Len(points.value) :
            i < j => C12_StrLeq(points.value[i].timestamp.s, points.value[j].timestamp.s)

\* A string that encodes a finite number: an optionally signed run of
\* digits, possibly surrounded by blanks.
C13_EncodesNumber(s) ==
    LET body == Trim(s)
    IN  /\ Len(body) > 0
        /\ \/ AllDigits(body)
           \/ body[1] \in {"-", "+"} /\ Len(body) > 1 /\ AllDigits(Tail(body))

\* What the claim expects of one extraction.
C13_Expected(v) ==
    IF v.t = "number" THEN v
    ELSE IF v.t = "string" /\ C13_EncodesNumber(v.s) THEN StringToNumber(v.s)
    ELSE Null

\* C13: parseNullableNumber (and toArrayOfNumbers on each element) returns
\* the number for a finite number or a string encoding one, and null for
\* every other input: null, undefined, the empty or blank string,
\* non-numeric strings, NaN, booleans, arrays and objects.
C13_InvalidIsNull ==
    /\ (parseOut # NotCalled /\ parseOut.fn = "parseNullableNumber")
          => parseOut.value = C13_Expected(parseIn)
    /\ (parseOut # NotCalled /\ parseOut.fn = "toArrayOfNumbers" /\ IsArray(parseIn))
          => /\ Len(parseOut.value) = Len(parseIn.a)
             /\ \A i \in 1..Len(parseIn.a) : parseOut.value[i] = C13_Expected(parseIn.a[i])

\* The alias keys of the idle-latency series, by priority, and the first of
\* them that serie_0 carries.
C14_Aliases == <<"latencyIdle", "latency_idle", "p50", "values">>
C14_Present == {k \in 1..Len(C14_Aliases) : Get(SerieOf(payload), C14_Aliases[k]) # Undefined}
C14_Chosen ==
    Get(SerieOf(payload), C14_Aliases[CHOOSE k \in C14_Present : \A j \in C14_Present : k <= j])

\* C14: in the parallel-array shape, when several of the keys latencyIdle,
\* latency_idle, p50, values are present, the earliest in that order
\* supplies latencyIdle of every point.
C14_AliasPriority ==
    (Extracted /\ SerieOf(payload).t = "object"
        /\ Get(SerieOf(payload), "timestamps") = Arr(<<T1, T2>>)
        /\ Cardinality(C14_Present) >= 2) =>
        /\ ~IsThrow(points)
        /\ Len(points.value) = 2
        /\ \A i \in 1..2 :
              points.value[i].latencyIdle = parseNullableNumber(C14_Chosen.a[i])

\* C15: when the upstream serie of a known region carries two timestamped
\* entries with p50 12 and 15, as an array of entries or as parallel arrays,
\* GET /api/latency/history returns two points whose latencyIdle are 12 and
\* 15 and stats.avg = 13.5.
C15_P50IsLatencyIdle ==
    \A r \in DOMAIN req :
        (token /\ Served(r, "history") /\ req[r].regions \in {QStr(id) : id \in KnownIds}
            /\ req[r].cf \in {CfOk(BodyEntriesP50), CfOk(BodyParallelP50)}) =>
            /\ req[r].response.status = 200
            /\ Len(req[r].response.body.points) = 2
            /\ req[r].response.body.points[1].latencyIdle = Num(12)
            /\ req[r].response.body.points[2].latencyIdle = Num(15)
            /\ req[r].response.body.stats.avg = Quot(27, 2)

CachedAt(r) == IsoToMs(req[r].response.body.cachedAt)
ResponseAge(r) == req[r].now - CachedAt(r)
ServedFromCache(r) ==
    Served(r, "latency") /\ req[r].response.status = 200 /\ Len(req[r].fetches) = 0

\* C18: GET /api/latency serves a cached entry only while its age is
\* strictly less than CACHE_TTL_MS; at age >= CACHE_TTL_MS the snapshots
\* are fetched again, so no response is staler than the time to live.
C18_NeverStalerThanTtl ==
    \A r \in DOMAIN req :
        (Served(r, "latency") /\ req[r].response.status = 200) =>
            /\ ResponseAge(r) >= 0
            /\ ResponseAge(r) < CACHE_TTL_MS
            /\ Len(req[r].fetches) > 0 => ResponseAge(r) = 0

\* A request answered from the entry another request stored, one
\* millisecond short of the time to live.
C18_Witness ==
    /\ ServedFromCache(1)
    /\ ResponseAge(1) = CACHE_TTL_MS - 1
    /\ Served(2, "latency")
    /\ Len(req[2].fetches) > 0
    /\ CacheKey(2) = CacheKey(1)
    /\ req[1].response.body.data = req[2].response.body.data

\* The request started a round of history fetches.
StartedRound(r) ==
    req[r].route = "latency" /\ req[r].pc \in {"fetching", "done"} /\ Len(req[r].fetches) > 0

\* C19: for one cache key the history endpoint is queried again at most
\* once per CACHE_TTL_MS window: two rounds of fetches for the same key,
\* whatever the interleaving of the requests, start at least CACHE_TTL_MS
\* apart.
C19_OneRoundPerWindow ==
    \A r1, r2 \in DOMAIN req :
        (r1 # r2 /\ StartedRound(r1) /\ StartedRound(r2) /\ CacheKey(r1) = CacheKey(r2)) =>
            \/ req[r1].now - req[r2].now >= CACHE_TTL_MS
            \/ req[r2].now - req[r1].now >= CACHE_TTL_MS

\* C20: the snapshot /api/latency returns for a region is the most recent
\* sample of its history: whenever the history response holds a point, the
\* snapshot's latencyIdle, latencyLoaded, jitterIdle and capturedAt are
\* those of a point with the greatest timestamp.
C20_SnapshotIsMostRecent ==
    \A r \in DOMAIN req :
        \A i \in 1..Len(req[r].fetches) :
            LET fetch == req[r].fetches[i]
            IN  (fetch # Pending /\ ~FetchFailed(fetch)
                    /\ Len(fetch.outcome.resp.body.points) > 0) =>
                    LET pts == fetch.outcome.resp.body.points
                        snapshot == fetch.result.value
                    IN  \E k \in 1..Len(pts) :
                            /\ \A j \in 1..Len(pts) :
                                  C12_StrLeq(pts[j].timestamp.s, pts[k].timestamp.s)
                            /\ snapshot.latencyIdle = pts[k].latencyIdle
                            /\ snapshot.latencyLoaded = pts[k].latencyLoaded
                            /\ snapshot.jitterIdle = pts[k].jitterIdle
                            /\ snapshot.capturedAt = pts[k].timestamp

\* C23: for each cache key the stored fetchedAt never decreases: no step
\* replaces an entry of snapshotCache by one with a smaller fetchedAt, so a
\* request that started earlier never overwrites the entry of a request
\* that started later.
C23_FetchedAtNeverDecreases ==
    [][\A cacheKey \in DOMAIN snapshotCache :
          snapshotCache'[cacheKey].fetchedAt >= snapshotCache[cacheKey].fetchedAt]_vars

\* The i-th element of the upstream timestamps array as the string the
\* point carries: a string as it is, anything else through String().
C25_UpstreamTimestamp(i) ==
    LET item == Get(SerieOf(payload), "timestamps").a[i]
    IN  IF TypeofString(item) THEN item ELSE Str(ToStringJs(item))

\* C25: in the parallel-array shape the i-th emitted point carries the i-th
\* element of the upstream timestamps array and the i-th element of the
\* upstream p50 array, also when the timestamps array holds empty,
\* whitespace-only or null elements.
C25_IndexPairing ==
    (Extracted /\ SerieOf(payload).t = "object"
        /\ IsArray(Get(SerieOf(payload), "timestamps"))
        /\ IsArray(Get(SerieOf(payload), "p50"))) =>
        /\ ~IsThrow(points)
        /\ \A i \in 1..Len(points.value) :
              /\ points.value[i].timestamp = C25_UpstreamTimestamp(i)
              /\ points.value[i].latencyIdle =
                     SeriesValue(toArrayOfNumbers(Get(SerieOf(payload), "p50")), i - 1)

(***************************************************************************)
(* SpecRange: GET /api/latency/history over the values of its range        *)
(* parameter, with a histogram body whose timestamps show the window.      *)
(***************************************************************************)
\* No serie, a histogram of two entries: its points are stamped with the
\* start and the end of the window queried.
BodyHistogram ==
    ResultOf(Undefined, Arr(<<ObjOf(<< <<"value", Num(3)>> >>),
                              ObjOf(<< <<"value", Num(4)>> >>)>>))

RangeParams ==
    {Null, QStr(""), QStr("bad"), QStr("24H"), QStr("1h"), QStr("24h"), QStr("7d"),
     QStr("toString"), QStr("constructor")}

RangeQueries ==
    {[region |-> region, range |-> range] :
        region \in {QStr("aws-virginia"), QStr("aws-london")}, range \in RangeParams}

NextRange ==
    \/ \E r \in DOMAIN req :
          GetHistory(r, RangeQueries, {CfOk(BodyHistogram), CfOk(BodyTwoEntries), CfStatus(429)})
    \/ Tick({CACHE_TTL_MS})

SpecRange == Init /\ [][NextRange]_vars

\* The range keys the duration table defines.
C29_TimeRangeKeys == {"1h", "24h", "7d", "30d"}

\* C29: for every value of the range parameter other than 1h, 24h, 7d and
\* 30d (absent, empty, or any other string) a request for a known region
\* with the token set ends in a response, and the response is the one of a
\* 24-hour window that ends 60 seconds before now.
C29_OtherRangeIs24h ==
    \A r \in DOMAIN req :
        (token /\ Served(r, "history")
            /\ (req[r].range = Null \/ req[r].range.v \notin C29_TimeRangeKeys)) =>
            /\ ~IsThrow(req[r].response)
            /\ req[r].response =
                   HistoryUpstream(req[r].cf,
                                   req[r].now - 60 * 1000 - 24 * 60 * 60 * 1000,
                                   req[r].now - 60 * 1000, req[r].now)

(***************************************************************************)
(* components/ExchangeMap.tsx, final revision (lines 870-2540): the state  *)
(* of the component, its handlers and its effects.  A handler's state      *)
(* update, the render that follows and the effects of that render (each    *)
(* cleanup, then each body, in the order of declaration) are one step;     *)
(* a state update queued by an effect is rendered in the same step.        *)
(* A fetch settles in a later step.                                        *)
(***************************************************************************)
\* data/network.ts CLOUD_REGIONS as the component reads it: id and provider
\* of the first row of each provider, in the order of the table.
MapRegions ==
    << [id |-> "aws-virginia", provider |-> "AWS"],
       [id |-> "gcp-singapore", provider |-> "GCP"],
       [id |-> "azure-amsterdam", provider |-> "Azure"] >>
CloudProvider == {"AWS", "GCP", "Azure"}
LatencyStatus == {"low", "medium", "high", "unknown"}
\* Two of the four keys of RANGE_OPTIONS (types/latency.ts:55-60).
RANGE_OPTIONS == {"1h", "24h"}
DEFAULT_EXCHANGE_ID == "binance-ldn"
DEFAULT_REGION_ID == MapRegions[1].id

LAYER_VISIBILITY_DEFAULT == [realtime |-> TRUE, history |-> TRUE, regions |-> TRUE]
LATENCY_DEFAULT_VISIBILITY == [status \in LatencyStatus |-> TRUE]

\* A string held where the code also holds null.
Text(v) == [t |-> "text", v |-> v]

\* The useState initial values (lines 1011-1041).
InitialView ==
    [latencySnapshots |-> <<>>,
     latencyError |-> Null,
     visibleProviders |-> [provider \in CloudProvider |-> TRUE],
     layerVisibility |-> LAYER_VISIBILITY_DEFAULT,
     latencyFilters |-> LATENCY_DEFAULT_VISIBILITY,
     selectedExchange |-> DEFAULT_EXCHANGE_ID,
     selectedRegion |-> DEFAULT_REGION_ID,
     selectedRange |-> "24h",
     historyLoading |-> FALSE,
     historyError |-> Null,
     historyPoints |-> <<>>,
     historyStats |-> Null,
     historyQueriedAt |-> Null]

\* The first element of a set of row indices, 0 when it is empty:
\* CLOUD_REGIONS.find(...) as the index of the row found, 0 for undefined.
FirstRow(rows) ==
    IF rows = {} THEN 0 ELSE CHOOSE i \in rows : \A j \in rows : i <= j

\* CLOUD_REGIONS.find((entry) => entry.id === selectedRegion)
CurrentRegion(state) ==
    FirstRow({i \in 1..Len(MapRegions) : MapRegions[i].id = state.selectedRegion})

\* CLOUD_REGIONS.find((entry) => visibleProviders[entry.provider])
FallbackRegion(state) ==
    FirstRow({i \in 1..Len(MapRegions) : state.visibleProviders[MapRegions[i].provider]})

\* The effect of lines 1082-1097 that keeps the selected region whenever a
\* region with that id exists, visible or not.
SelectedRegionEffect_KeepCurrent(state) ==
    LET current == CurrentRegion(state)
        fallback == FallbackRegion(state)
    IN  IF current # 0
        THEN state.selectedRegion
        ELSE IF fallback # 0 THEN MapRegions[fallback].id ELSE ""

\* Lines 1082-1097: the selectedRegion the effect leaves queued, which is
\* the current one when it sets nothing.
SelectedRegionEffect(state) ==
    LET current == CurrentRegion(state)
        fallback == FallbackRegion(state)
    IN  IF current # 0 /\ state.visibleProviders[MapRegions[current].provider]
        THEN state.selectedRegion
        ELSE IF fallback # 0 THEN MapRegions[fallback].id ELSE ""

\* The query of a history fetch (lines 1930-1934).
HistoryParams(state) ==
    [region |-> state.selectedRegion, range |-> state.selectedRange,
     exchange |-> state.selectedExchange]

\* One call of fetchHistory with its AbortController.  pc: "fetch" while
\* its awaits are pending, "done" when it has returned;
\* outcome is what fetchHistory has been handed.
Controller(params) ==
    [params |-> params, aborted |-> FALSE, pc |-> "fetch", outcome |-> [kind |-> "pending"]]

\* A call of fetchHistory that has returned: nothing reads its controller
\* any more; aborted is kept as the call last read it.
Finished(controller) ==
    [params |-> [region |-> "", range |-> "", exchange |-> ""],
     aborted |-> controller.aborted, pc |-> "done", outcome |-> [kind |-> "pending"]]

\* controller.abort() of the cleanup (lines 1977-1979).  At most one
\* controller is not aborted: the one of the last run of the effect.
AbortAll(ctrls) ==
    [i \in 1..Len(ctrls) |->
        IF ctrls[i].pc = "done" THEN ctrls[i] ELSE [ctrls[i] EXCEPT !.aborted = TRUE]]

\* Lines 1908-1980: cleanup of the previous run, then the body up to the
\* first await of fetchHistory.
HistoryEffect(state, ctrls) ==
    IF ~state.layerVisibility.history
    THEN [view |-> [state EXCEPT !.historyPoints = <<>>, !.historyStats = Null,
                                 !.historyLoading = FALSE, !.historyError = Null],
          controllers |-> AbortAll(ctrls)]
    ELSE IF state.selectedRegion = ""
    THEN [view |-> [state EXCEPT !.historyPoints = <<>>, !.historyStats = Null],
          controllers |-> AbortAll(ctrls)]
    ELSE [view |-> [state EXCEPT !.historyLoading = TRUE, !.historyError = Null],
          controllers |-> Append(AbortAll(ctrls), Controller(HistoryParams(state)))]

HistoryDeps(state) ==
    <<state.selectedExchange, state.selectedRegion, state.selectedRange,
      state.layerVisibility.history>>
SelectedRegionDeps(state) == <<state.selectedRegion, state.visibleProviders>>

\* A render of state after prev, with its effects, and the renders that the
\* effects' own updates cause, until no effect has a changed dependency.
RECURSIVE Commit(_, _, _)
Commit(prev, state, ctrls) ==
    LET region == IF SelectedRegionDeps(state) # SelectedRegionDeps(prev)
                  THEN SelectedRegionEffect(state) ELSE state.selectedRegion
        history == IF HistoryDeps(state) # HistoryDeps(prev)
                   THEN HistoryEffect(state, ctrls)
                   ELSE [view |-> state, controllers |-> ctrls]
        next == [history.view EXCEPT !.selectedRegion = region]
    IN  IF next.selectedRegion = state.selectedRegion
        THEN [view |-> next, controllers |-> history.controllers]
        ELSE Commit(state, next, history.controllers)

\* The first render: every effect runs.
Mount ==
    LET history == HistoryEffect(InitialView, <<>>)
        next == [history.view EXCEPT !.selectedRegion = SelectedRegionEffect(InitialView)]
    IN  IF next.selectedRegion = InitialView.selectedRegion
        THEN [view |-> next, controllers |-> history.controllers]
        ELSE Commit(InitialView, next, history.controllers)

\* What a history fetch comes to: fetch() rejects, the route answers a
\* non-OK status with or without a message, or it answers OK with the body
\* of the query.  A body is identified by the region and the range it
\* answers for, the two parameters the route reads (route.ts:26-27).
HistoryReject == [kind |-> "reject"]
HistoryNotOk(message) == [kind |-> "status", message |-> message]
HistoryOk == [kind |-> "ok"]
HistoryPayload(params) ==
    LET query == [region |-> params.region, range |-> params.range]
    IN  [points |-> <<[of |-> query]>>,
         stats |-> [t |-> "stats", of |-> query],
         queriedAt |-> Text("queriedAt")]
HistoryOutcomes == {HistoryReject, HistoryNotOk(Null), HistoryOk}

\* error.message as the catch block reads it (lines 1943-1948, 1964-1968).
HistoryErrorMessage(outcome) ==
    IF outcome.kind = "reject" THEN Text("Failed to fetch")
    ELSE Coalesce(outcome.message, Text("Unable to load latency history"))

\* fetchHistory after its last await, without the checks of
\* controller.signal.aborted.
fetchHistory_Settled_NoAbortCheck(state, controller) ==
    IF controller.outcome.kind = "ok"
    THEN LET body == HistoryPayload(controller.params)
         IN  [state EXCEPT !.historyPoints = body.points, !.historyStats = body.stats,
                           !.historyQueriedAt = body.queriedAt, !.historyLoading = FALSE]
    ELSE [state EXCEPT !.historyError = HistoryErrorMessage(controller.outcome),
                       !.historyLoading = FALSE]

\* Lines 1952-1974: fetchHistory after its last await: the state it leaves.
fetchHistory_Settled(state, controller) ==
    IF controller.aborted THEN state
    ELSE IF controller.outcome.kind = "ok"
    THEN LET body == HistoryPayload(controller.params)
         IN  [state EXCEPT !.historyPoints = body.points, !.historyStats = body.stats,
                           !.historyQueriedAt = body.queriedAt, !.historyLoading = FALSE]
    ELSE [state EXCEPT !.historyError = HistoryErrorMessage(controller.outcome),
                       !.historyLoading = FALSE]

\* A handler has set the state to next: the render and its effects.
Render(next) ==
    LET done == Commit(view, next, controllers)
    IN  /\ Len(done.controllers) <= MaxHistoryFetches
        /\ view' = done.view
        /\ controllers' = done.controllers

MapFrame == UNCHANGED <<normVars, statsVars, apiVars, parseVars, circleVars>>

\* Lines 1138-1143.
toggleProviderVisibility(provider) ==
    /\ mounted
    /\ Render([view EXCEPT !.visibleProviders[provider] = ~@])
    /\ UNCHANGED <<polls, mounted>>
    /\ MapFrame

\* The search results offered (lines 1150-1187): exchanges, and regions
\* disabled when their provider is hidden.
SearchResults ==
    {[id |-> id, type |-> "exchange", disabled |-> FALSE] : id \in {"binance-ldn", "bybit-sgp"}}
    \cup {[id |-> MapRegions[i].id, type |-> "region",
           disabled |-> view.visibleProviders[MapRegions[i].provider] = FALSE] :
            i \in 1..Len(MapRegions)}

\* Lines 1223-1261.
handleSearchSelect(result) ==
    /\ mounted
    /\ IF result.disabled
       THEN UNCHANGED <<view, controllers>>
       ELSE IF result.type = "exchange"
       THEN Render([view EXCEPT !.selectedExchange = result.id])
       ELSE Render([view EXCEPT !.selectedRegion = result.id])
    /\ UNCHANGED <<polls, mounted>>
    /\ MapFrame

\* The region select of LatencyHistoryPanel: onSelectRegion (line 2320)
\* over regionOptions (lines 1116-1125), rendered with the history layer.
onSelectRegion(regionId) ==
    /\ mounted
    /\ view.layerVisibility.history
    /\ \E i \in 1..Len(MapRegions) :
          MapRegions[i].id = regionId /\ view.visibleProviders[MapRegions[i].provider]
    /\ Render([view EXCEPT !.selectedRegion = regionId])
    /\ UNCHANGED <<polls, mounted>>
    /\ MapFrame

\* The range select of LatencyHistoryPanel: onSelectRange (line 2322).
onSelectRange(range) ==
    /\ mounted
    /\ view.layerVisibility.history
    /\ Render([view EXCEPT !.selectedRange = range])
    /\ UNCHANGED <<polls, mounted>>
    /\ MapFrame

\* Lines 1274-1282.
toggleLayerVisibility(layer) ==
    /\ mounted
    /\ Render([view EXCEPT !.layerVisibility[layer] = ~@])
    /\ UNCHANGED <<polls, mounted>>
    /\ MapFrame

\* The awaits of one call of fetchHistory settle (fetch(), then
\* response.json()) and the call runs to its end.  Nothing is written
\* between the two awaits and controller.signal.aborted is read only after
\* the last one, so they are one step.
HistorySettles(i, outcomes) ==
    /\ controllers[i].pc = "fetch"
    /\ \E outcome \in outcomes :
          view' = fetchHistory_Settled(view, [controllers[i] EXCEPT !.outcome = outcome])
    /\ controllers' = [controllers EXCEPT ![i] = Finished(controllers[i])]
    /\ UNCHANGED <<polls, mounted>>
    /\ MapFrame

\* isCancelled of the poll effect (lines 1810, 1850): set by its cleanup,
\* which runs when the component unmounts.
isCancelled == ~mounted

\* One call of pullLatency.  pc: "fetch" while its awaits are pending,
\* "done" when it has returned.  n is its rank among the calls.
Poll(n) == [n |-> n, pc |-> "fetch", outcome |-> [kind |-> "pending"]]

\* What a poll comes to: fetch() rejects, the route answers a non-OK status
\* with or without a message, it answers OK with a body that has no data
\* array, or it answers OK with the snapshots the route held when the poll
\* reached it.  The snapshots of the n-th poll are captured at n.
PollReject == [kind |-> "reject"]
PollNotOk(message) == [kind |-> "status", message |-> message]
PollNoData == [kind |-> "nodata"]
PollOk == [kind |-> "ok"]
PollOutcomes == {PollReject, PollNotOk(Null), PollNoData, PollOk}
LatencyPayload(n) ==
    [data |-> [i \in 1..2 |-> [regionId |-> MapRegions[i].id, capturedAt |-> n]]]

\* Lines 1829-1832: next[entry.regionId] = entry for every entry of data.
SnapshotsById(data) ==
    [regionId \in {data[i].regionId : i \in 1..Len(data)} |->
        data[CHOOSE i \in 1..Len(data) :
                data[i].regionId = regionId
                /\ \A j \in (i + 1)..Len(data) : data[j].regionId # regionId]]

\* error.message as the catch block of pullLatency reads it.
PollErrorMessage(outcome) ==
    CASE outcome.kind = "reject" -> Text("Failed to fetch")
      [] outcome.kind = "nodata" -> Text("Cannot read properties of undefined")
      [] OTHER -> Coalesce(outcome.message, Text("Cloudflare latency service unavailable"))

\* pullLatency whose catch block also empties latencySnapshots.
pullLatency_Settled_ClearsOnError(state, poll, cancelled) ==
    IF cancelled THEN state
    ELSE IF poll.outcome.kind = "ok"
    THEN [state EXCEPT !.latencySnapshots = SnapshotsById(LatencyPayload(poll.n).data),
                       !.latencyError = Null]
    ELSE [state EXCEPT !.latencySnapshots = <<>>,
                       !.latencyError = PollErrorMessage(poll.outcome)]

\* Lines 1826-1843: pullLatency after its last await: the state it leaves.
pullLatency_Settled(state, poll, cancelled) ==
    IF cancelled THEN state
    ELSE IF poll.outcome.kind = "ok"
    THEN [state EXCEPT !.latencySnapshots = SnapshotsById(LatencyPayload(poll.n).data),
                       !.latencyError = Null]
    ELSE [state EXCEPT !.latencyError = PollErrorMessage(poll.outcome)]

\* The updater of toggleLatencyFilter without the hasActive check.
toggleLatencyFilter_NoGuard(prev, status) == [prev EXCEPT ![status] = ~@]

\* Lines 1264-1271: the updater passed to setLatencyFilters.
toggleLatencyFilter(prev, status) ==
    LET next == [prev EXCEPT ![status] = ~@]
        hasActive == \E s \in DOMAIN next : next[s]
    IN  IF ~hasActive THEN prev ELSE next

\* Lines 1263-1272.
ToggleLatencyFilter(status) ==
    /\ mounted
    /\ view' = [view EXCEPT !.latencyFilters = toggleLatencyFilter(@, status)]
    /\ UNCHANGED <<controllers, polls, mounted>>
    /\ MapFrame

\* setInterval(pullLatency, 10000) fires (line 1846): one more call, up to
\* its first await.  Nothing waits for the calls before it.
PollTimer ==
    /\ mounted
    /\ Len(polls) < MaxPolls
    /\ polls' = Append(polls, Poll(Len(polls) + 1))
    /\ UNCHANGED <<view, controllers, mounted>>
    /\ MapFrame

\* The awaits of one call of pullLatency settle (fetch(), then
\* response.json()) and the call runs to its end.  Nothing is written
\* between the two awaits and isCancelled is read only after the last one,
\* so they are one step.
PollSettles(i, outcomes) ==
    /\ polls[i].pc = "fetch"
    /\ \E outcome \in outcomes :
          LET poll == [polls[i] EXCEPT !.outcome = outcome]
          IN  /\ view' = pullLatency_Settled(view, poll, isCancelled)
              /\ polls' = [polls EXCEPT ![i] = [poll EXCEPT !.pc = "done"]]
    /\ UNCHANGED <<controllers, mounted>>
    /\ MapFrame

\* The component unmounts: the cleanups of the history effect (lines
\* 1977-1979) and of the poll effect (lines 1848-1853) run.
Unmount ==
    /\ mounted
    /\ mounted' = FALSE
    /\ controllers' = AbortAll(controllers)
    /\ UNCHANGED <<view, polls>>
    /\ MapFrame

(***************************************************************************)
(* SpecHistory: the selection handlers and the history fetches of one      *)
(* ExchangeMap.  SpecPoll: its latency poll and its latency filter.        *)
(***************************************************************************)
InitMap ==
    /\ NormIdle
    /\ statsIn = <<>>
    /\ statsOut = NotCalled
    /\ ApiIdle
    /\ ParseIdle
    /\ CircleIdle
    /\ view = Mount.view
    /\ controllers = Mount.controllers
    /\ polls = <<Poll(1)>>
    /\ mounted = TRUE

NextHistory ==
    \/ \E provider \in CloudProvider : toggleProviderVisibility(provider)
    \/ \E result \in SearchResults : handleSearchSelect(result)
    \/ \E i \in 1..Len(MapRegions) : onSelectRegion(MapRegions[i].id)
    \/ \E range \in RANGE_OPTIONS : onSelectRange(range)
    \/ toggleLayerVisibility("history")
    \/ \E i \in 1..Len(controllers) : HistorySettles(i, HistoryOutcomes)
    \/ Unmount

SpecHistory == InitMap /\ [][NextHistory]_vars

NextPoll ==
    \/ PollTimer
    \/ \E i \in 1..Len(polls) : PollSettles(i, PollOutcomes)
    \/ \E status \in LatencyStatus : ToggleLatencyFilter(status)
    \/ Unmount

SpecPoll == InitMap /\ [][NextPoll]_vars

(***************************************************************************)
(* Claims about ExchangeMap (SpecHistory, SpecPoll).                       *)
(***************************************************************************)
HistoryFields(state) ==
    <<state.historyPoints, state.historyStats, state.historyQueriedAt, state.historyError>>

\* The call of fetchHistory returns in this step.
Returns(i) == controllers[i].pc # "done" /\ controllers'[i].pc = "done"

\* The fetch was issued for a selection that is no longer the current one:
\* the component is unmounted, the history layer is off, a later fetch
\* exists, or the selection differs from the fetch's query.
Superseded(i) ==
    \/ ~mounted
    \/ ~view.layerVisibility.history
    \/ i # Len(controllers)
    \/ controllers[i].params # HistoryParams(view)

HistoryInFlight ==
    \E i \in 1..Len(controllers) : controllers[i].pc # "done" /\ ~controllers[i].aborted

\* C22: historyLoading does not stay true: whenever no un-aborted history
\* fetch is in flight, historyLoading is false, also after selectedRegion
\* became '' while a fetch was in flight.
C22_LoadingEnds ==
    (mounted /\ ~HistoryInFlight) => ~view.historyLoading

\* The providers shown.
VisibleRegionIds ==
    {MapRegions[i].id : i \in {j \in 1..Len(MapRegions) :
                                  view.visibleProviders[MapRegions[j].provider]}}

\* C26: after the region-selection effect has settled, selectedRegion is
\* the id of a region whose provider is visible, or '' exactly when no
\* provider is visible.
C26_SelectedRegionVisible ==
    mounted =>
        /\ (VisibleRegionIds # {}) => view.selectedRegion \in VisibleRegionIds
        /\ (VisibleRegionIds = {}) <=> (view.selectedRegion = "")

\* Every provider has been hidden and the effect has emptied the selection;
\* or the provider of the selected region was hidden and the effect moved
\* the selection to the first region still visible.
C26_Witness ==
    /\ mounted
    /\ ~view.visibleProviders["AWS"]
    /\ view.visibleProviders["Azure"]
    /\ ~view.visibleProviders["GCP"]
    /\ view.selectedRegion = "azure-amsterdam"

\* The polls that completed with snapshots.
SucceededPolls == {i \in 1..Len(polls) : polls[i].pc = "done" /\ polls[i].outcome.kind = "ok"}

\* C24: latencySnapshots holds the data of the latest-started poll among
\* those that completed successfully, also when polls overlap.
C24_LatestStartedPollWins ==
    (mounted /\ SucceededPolls # {}) =>
        LET latest == CHOOSE i \in SucceededPolls : \A j \in SucceededPolls : j <= i
        IN  view.latencySnapshots = SnapshotsById(LatencyPayload(polls[latest].n).data)

\* C27: starting from all four statuses enabled, after any sequence of
\* toggleLatencyFilter calls at least one status is enabled, and a toggle
\* of the only status that is enabled leaves it enabled.
C27_OneFilterStaysEnabled ==
    /\ [](\E status \in LatencyStatus : view.latencyFilters[status])
    /\ [][\A status \in LatencyStatus :
             (\A other \in LatencyStatus : view.latencyFilters[other] <=> (other = status))
                 => view'.latencyFilters[status]]_vars

\* One status is left enabled.
C27_Witness ==
    Cardinality({status \in LatencyStatus : view.latencyFilters[status]}) = 1

\* C28: a poll that fails sets latencyError and nothing else, so
\* latencySnapshots keeps the snapshots displayed; a poll that returns
\* after the component has unmounted changes no state.
C28_FailedPollKeepsSnapshots ==
    [][\A i \in 1..Len(polls) :
          (polls[i].pc # "done" /\ polls'[i].pc = "done") =>
              /\ (mounted /\ polls'[i].outcome.kind # "ok") =>
                    /\ view'.latencySnapshots = view.latencySnapshots
                    /\ view'.latencyError # Null
                    /\ [view' EXCEPT !.latencyError = Null] = [view EXCEPT !.latencyError = Null]
              /\ ~mounted => view' = view]_vars

\* A poll has failed after another had delivered snapshots: the error is
\* shown and the snapshots remain.
C28_Witness ==
    /\ mounted
    /\ \E i \in 1..Len(polls) : polls[i].pc = "done" /\ polls[i].outcome.kind \in {"reject", "status"}
    /\ view.latencyError # Null
    /\ view.latencySnapshots # <<>>

====
